---- MODULE Spec2Model ----
(***************************************************************************)
(* The phase state machine of the dual-agent orchestrator                  *)
(* (src/src/orchestrator.py) together with the state and checkpoint store  *)
(* (src/src/state_io.py).  One invocation of run_pipeline is a process     *)
(* that walks through the positions in pc; the state file and the          *)
(* checkpoint files survive the end of an invocation, the in-memory        *)
(* RunState and the locals do not.                                         *)
(***************************************************************************)
EXTENDS Integers, FiniteSets, Sequences, TLC

\* --phase1-max-cycles / --phase2-max-cycles as given on every invocation.
Phase1MaxCycles == 2
Phase2MaxCycles == 2

\* Invocations of run_pipeline in one work directory (the first start, and
\* the restarts and resumes after a return, an error, a freeze or a crash).
MaxInvocations == 2

\* Finding ids the reviewer may use (all match FINDING_ID_PATTERN).
FindingIds == {"F-001"}

\* Agents whose quota can be exhausted (fallback routing disabled).
AgentKeys == {"claude", "codex"}

PhaseKeys == {"phase1", "phase2"}

MaxCyclesOf(phase) == IF phase = "phase1" THEN Phase1MaxCycles ELSE Phase2MaxCycles

CheckpointKeys ==
    {k \in [phase : PhaseKeys, cycle : 1..(Phase1MaxCycles + Phase2MaxCycles)] :
        k.cycle <= MaxCyclesOf(k.phase)}

\* "No such file" for the state file and for a checkpoint file.
NoFile == [phase |-> "nofile"]

\* The in-memory RunState of a process that is not running.
NoState == [phase |-> "nostate"]

(***************************************************************************)
(* state_io.py                                                             *)
(***************************************************************************)

\* init_state: a fresh version-2 state document (paths and timestamps are
\* not modelled; None is "none" for texts and -1 for last_test_exit).
InitState ==
    [phase |-> "phase1",
     phase1 |-> [status |-> "pending", cycle |-> 0, max_cycles |-> Phase1MaxCycles,
                 codex_approval |-> "NO", claude_approval |-> "NO",
                 open_findings |-> {}, error |-> "none"],
     phase2 |-> [status |-> "pending", cycle |-> 0, max_cycles |-> Phase2MaxCycles,
                 claude_approval |-> "NO", open_findings |-> {},
                 implementation_ready |-> "NO", last_test_exit |-> -1,
                 error |-> "none"]]

\* ensure_state_shape.sanitize_phase_findings: ids failing the pattern are dropped.
SanitizePhaseFindings(phase_state) ==
    [phase_state EXCEPT !.open_findings = {f \in @ : f \in FindingIds}]

\* ensure_state_shape: a document that is not a version-2 state is replaced
\* by a fresh one; otherwise the findings of both phases are sanitized.
EnsureStateShape(loaded) ==
    IF loaded = NoFile
    THEN InitState
    ELSE [loaded EXCEPT !.phase1 = SanitizePhaseFindings(@),
                        !.phase2 = SanitizePhaseFindings(@)]

\* load_cycle_checkpoint: the checkpoint document, or None (NoFile).
LoadCycleCheckpoint(ckpts, phase, c) ==
    IF [phase |-> phase, cycle |-> c] \in CheckpointKeys
    THEN ckpts[[phase |-> phase, cycle |-> c]]
    ELSE NoFile

\* write_cycle_checkpoint: the file for (phase, cycle) is replaced atomically.
WriteCycleCheckpoint(ckpts, phase, c, s) ==
    [ckpts EXCEPT ![[phase |-> phase, cycle |-> c]] = s]

(***************************************************************************)
(* orchestrator.py: recovery, parsing, contract                            *)
(***************************************************************************)

\* recover_state_from_checkpoint without the check of the phase status.
recover_state_from_checkpoint_AnyStatus(ckpts, s) ==
    IF s.phase \notin PhaseKeys
    THEN s
    ELSE LET phase_state == IF s.phase = "phase1" THEN s.phase1 ELSE s.phase2
         IN  IF phase_state.cycle <= 0
             THEN s
             ELSE LET recovered == LoadCycleCheckpoint(ckpts, s.phase, phase_state.cycle)
                  IN  IF recovered = NoFile THEN s ELSE recovered

\* RunContext.recover_state_from_checkpoint
recover_state_from_checkpoint(ckpts, s) ==
    IF s.phase \notin PhaseKeys
    THEN s
    ELSE LET phase_state == IF s.phase = "phase1" THEN s.phase1 ELSE s.phase2
         IN  IF phase_state.status \notin {"running", "frozen"}
             THEN s
             ELSE IF phase_state.cycle <= 0
             THEN s
             ELSE LET recovered == LoadCycleCheckpoint(ckpts, s.phase, phase_state.cycle)
                  IN  IF recovered = NoFile THEN s ELSE recovered

\* An agent reply, reduced to what the contract reads from it: whether its
\* last non-blank line is STATUS: DONE, the value of its required flag
\* ("NONE" when the marker is missing) and its OPEN_FINDINGS marker.
AgentOutputs ==
    [done : BOOLEAN, flag : {"YES", "NO", "NONE"},
     has_open_findings : BOOLEAN, open_findings : SUBSET FindingIds]

\* The value of a local that has not been assigned yet.
Unset == [done |-> FALSE, flag |-> "UNSET", has_open_findings |-> FALSE, open_findings |-> {}]

validate_done_marker(text) == text.done

\* parse_flag: "NONE" stands for None.
parse_flag(text) == text.flag

\* `parse_flag(...) or "NO"`
OrNo(v) == IF v = "NONE" THEN "NO" ELSE v

\* parse_open_findings: found = FALSE stands for None.
parse_open_findings(text) ==
    [found |-> text.has_open_findings,
     ids |-> IF text.has_open_findings THEN text.open_findings ELSE {}]

\* `parse_open_findings(...) or []`
OrEmpty(r) == IF r.found THEN r.ids ELSE {}

\* validate_agent_contract, the approval / open-findings part: the rejection
\* reason, or "ok" for (None, open_findings).
validate_agent_contract(output) ==
    IF parse_flag(output) \notin {"YES", "NO"}
    THEN "missing or invalid approval marker"
    ELSE IF ~parse_open_findings(output).found
    THEN "missing OPEN_FINDINGS marker"
    ELSE IF parse_flag(output) = "YES" /\ parse_open_findings(output).ids # {}
    THEN "YES is only allowed when OPEN_FINDINGS: NONE"
    ELSE IF parse_flag(output) = "NO" /\ parse_open_findings(output).ids = {}
    THEN "NO requires at least one open finding"
    ELSE "ok"

\* run_agent_checked.validate_output_contract with one required flag and an
\* optional output validator.
validate_output_contract(output, with_validator) ==
    IF ~validate_done_marker(output)
    THEN "missing required final completion marker"
    ELSE IF parse_flag(output) = "NONE"
    THEN "missing required flags"
    ELSE IF with_validator
    THEN validate_agent_contract(output)
    ELSE "ok"

\* run_agent_checked returns an output only if it passed the contract.
run_agent_checked_returns(output, with_validator) ==
    validate_output_contract(output, with_validator) = "ok"

\* str(QuotaReachedError(agent_key, detail))
QuotaErrorText(agent_key) ==
    IF agent_key = "claude" THEN "claude quota/rate limit reached"
    ELSE "codex quota/rate limit reached"


\* freeze_current_phase marking phase 2 whatever the current phase is.
freeze_current_phase_WrongPhase(s, error_text) ==
    LET frozen == [s.phase2 EXCEPT !.status = "frozen", !.error = error_text]
        after == [s EXCEPT !.phase2 = frozen]
    IN  [state |-> after, saved |-> <<after>>]

\* freeze_current_phase without the rewind of the cycle counter.
freeze_current_phase_NoRewind(s, error_text) ==
    LET phase_key == IF s.phase \in PhaseKeys THEN s.phase ELSE "phase1"
        phase_state == IF phase_key = "phase1" THEN s.phase1 ELSE s.phase2
        frozen == [phase_state EXCEPT !.status = "frozen", !.error = error_text]
        after == IF phase_key = "phase1"
                 THEN [s EXCEPT !.phase1 = frozen, !.phase = phase_key]
                 ELSE [s EXCEPT !.phase2 = frozen, !.phase = phase_key]
    IN  [state |-> after, saved |-> <<after>>]

\* freeze_current_phase rewinding the cycle counter to the start of the phase.
freeze_current_phase_RewindAll(s, error_text) ==
    LET phase_key == IF s.phase \in PhaseKeys THEN s.phase ELSE "phase1"
        phase_state == IF phase_key = "phase1" THEN s.phase1 ELSE s.phase2
        frozen == [phase_state EXCEPT !.cycle = 0, !.status = "frozen",
                                      !.error = error_text]
        after == IF phase_key = "phase1"
                 THEN [s EXCEPT !.phase1 = frozen, !.phase = phase_key]
                 ELSE [s EXCEPT !.phase2 = frozen, !.phase = phase_key]
    IN  [state |-> after, saved |-> <<after>>]

\* freeze_current_phase: the state it leaves in memory and the list of
\* documents it hands to ctx.save_state.
freeze_current_phase(s, error_text) ==
    LET phase_key == IF s.phase \in PhaseKeys THEN s.phase ELSE "phase1"
        phase_state == IF phase_key = "phase1" THEN s.phase1 ELSE s.phase2
        c == phase_state.cycle
        frozen == [phase_state EXCEPT !.cycle = IF c > 0 THEN c - 1 ELSE c,
                                      !.status = "frozen",
                                      !.error = error_text]
        after == IF phase_key = "phase1"
                 THEN [s EXCEPT !.phase1 = frozen, !.phase = phase_key]
                 ELSE [s EXCEPT !.phase2 = frozen, !.phase = phase_key]
    IN  [state |-> after, saved |-> <<after>>]

(***************************************************************************)
(* The process                                                             *)
(***************************************************************************)

VARIABLES
    state,          \* the in-memory RunState of the running invocation
    disk,           \* the content of .orchestrator/state.json
    checkpoints,    \* the content of .orchestrator/checkpoints, by (phase, cycle)
    pc,             \* the position of the invocation ("idle": none is running)
    args,           \* the command-line arguments not yet consumed
    cycle,          \* the loop variable of run_phase1 / run_phase2
    locals,         \* the other locals of run_phase1 / run_phase2
    exc,            \* the agent named by a propagating QuotaReachedError
    saved_states,   \* the documents written by ctx.save_state in the last step
    calls,          \* history: the steps of the current cycle that have finished
    last,           \* history: how the previous invocation ended
    resumed,        \* history: `last`, until a default resume starts its first cycle
    invocations     \* history: the number of invocations so far

\* The variables of run_pipeline, its state file and its checkpoints.
pipeline_vars == <<state, disk, checkpoints, pc, args, cycle, locals, exc,
                   saved_states, calls, last, resumed, invocations>>

VARIABLES
    config,                 \* OrchestratorConfig: the fallback switch and the sticky quota flag
    rpc,                    \* the position of run_agent_checked ("idle": no call is running)
    request,                \* the arguments agent_key and max_retries of the call
    effective_agent_key,    \* the agent the attempts of the call go to
    attempt,                \* the loop variable of run_agent_checked
    errors,                 \* the list `errors`, each text by its classification
    outcome,                \* how the last call ended, and through which agent
    hist,                   \* history: the agent runs and sleeps of the current call
    checked_calls           \* history: the number of calls so far

\* The variables of run_agent_checked.
checked_vars == <<config, rpc, request, effective_agent_key, attempt, errors,
                  outcome, hist, checked_calls>>

VARIABLES
    stream_config,      \* OrchestratorConfig: dry_run and agent_live_stream
    mpc,                \* the position of run_agent's thread ("idle": no call is running)
    pending,            \* the exception propagating through the finally block
    process,            \* the agent process of the call: status, exit code, stdin behaviour
    pipe,               \* by channel: the lines the process wrote, whether the write end is open
    reader,             \* by channel: the read_stream thread, its position and lines read
    stream_queue,       \* stream_queue: (channel, line) events, line 0 for the sentinel None
    chunks,             \* stdout_chunks / stderr_chunks, by channel
    completed_channels, \* the channels whose sentinel the main loop has taken
    elapsed,            \* time.monotonic() - start > timeout_seconds
    logged,             \* whether the main loop logged the line it took last
    cleanups,           \* history: the calls of adapter.cleanup() in the current call
    result,             \* how the last call ended: the output returned or the error raised
    stream_calls        \* history: the number of calls of run_agent so far

\* The variables of run_agent.
stream_vars == <<stream_config, mpc, pending, process, pipe, reader, stream_queue,
                 chunks, completed_channels, elapsed, logged, cleanups, result,
                 stream_calls>>

VARIABLES
    output,        \* the agent output, a sequence of lines
    vpc,           \* position of the validation of the output
    verdict        \* what validate_output_contract has answered

parse_vars == <<output, vpc, verdict>>

VARIABLES
    loaded_findings,
    findings,
    review,
    previous_open_findings,
    cpc

contract_vars == <<loaded_findings, findings, review, previous_open_findings, cpc>>

VARIABLES
    fragments,
    spc,
    once,
    twice

strip_vars == <<fragments, spc, once, twice>>

VARIABLES
    marker_lines,
    markers_pc,
    extracted

marker_vars == <<marker_lines, markers_pc, extracted>>

VARIABLES
    files,
    dirs,
    tmp,
    stale,
    job,
    apc,
    nwrites

atomic_vars == <<files, dirs, tmp, stale, job, apc, nwrites>>

VARIABLES
    path_state,
    path_args,
    ctx_paths,
    touched,
    hpc

path_vars == <<path_state, path_args, ctx_paths, touched, hpc>>

VARIABLES
    fcntl,
    flock,
    wpc,
    wresult,
    processed,
    starts

lock_vars == <<fcntl, flock, wpc, wresult, processed, starts>>

VARIABLES
    inbox_max_retries,
    location,
    sidecar,
    success_marker,
    ipc,
    inbox_task,
    executions,
    failures,
    exit_zero,
    move_failed,
    interrupts

poison_vars == <<inbox_max_retries, location, sidecar, success_marker, ipc, inbox_task, executions, failures, exit_zero, move_failed, interrupts>>

VARIABLES
    phase_findings,
    reviewer_response,
    prior_history,
    bpc

history_vars == <<phase_findings, reviewer_response, prior_history, bpc>>

VARIABLES
    adapter,
    last_message_file,
    last_message,
    written_message,
    captured,
    xpc,
    agent_result,
    agent_runs

extract_vars == <<adapter, last_message_file, last_message, written_message, captured, xpc, agent_result, agent_runs>>

vars == <<pipeline_vars, checked_vars, stream_vars, parse_vars, contract_vars, strip_vars, marker_vars, atomic_vars, path_vars, lock_vars, poison_vars, history_vars, extract_vars>>

\* A step of run_pipeline leaves everything else alone.
OnlyPipeline == UNCHANGED <<checked_vars, stream_vars, parse_vars, contract_vars, strip_vars, marker_vars, atomic_vars, path_vars, lock_vars, poison_vars, history_vars, extract_vars>>

\* A step of run_agent_checked leaves everything else alone.
OnlyChecked == UNCHANGED <<pipeline_vars, stream_vars, parse_vars, contract_vars, strip_vars, marker_vars, atomic_vars, path_vars, lock_vars, poison_vars, history_vars, extract_vars>>

\* A step of run_agent leaves everything else alone.
OnlyStream == UNCHANGED <<pipeline_vars, checked_vars, parse_vars, contract_vars, strip_vars, marker_vars, atomic_vars, path_vars, lock_vars, poison_vars, history_vars, extract_vars>>

\* A step of the validation of an agent output leaves everything else alone.
OnlyParse == UNCHANGED <<pipeline_vars, checked_vars, stream_vars, contract_vars, strip_vars, marker_vars, atomic_vars, path_vars, lock_vars, poison_vars, history_vars, extract_vars>>

\* A step of the reviewer contract leaves everything else alone.
OnlyContract == UNCHANGED <<pipeline_vars, checked_vars, stream_vars, parse_vars, strip_vars, marker_vars, atomic_vars, path_vars, lock_vars, poison_vars, history_vars, extract_vars>>

\* A step on a text in fragments leaves everything else alone.
OnlyStrip == UNCHANGED <<pipeline_vars, checked_vars, stream_vars, parse_vars, contract_vars, marker_vars, atomic_vars, path_vars, lock_vars, poison_vars, history_vars, extract_vars>>

\* Frame of the marker extraction model (parse_flag, parse_open_findings on raw text).
OnlyMarkers == UNCHANGED <<pipeline_vars, checked_vars, stream_vars, parse_vars, contract_vars, strip_vars, atomic_vars, path_vars, lock_vars, poison_vars, history_vars, extract_vars>>

\* Frame of the atomic_write_file model.
OnlyAtomic == UNCHANGED <<pipeline_vars, checked_vars, stream_vars, parse_vars, contract_vars, strip_vars, marker_vars, path_vars, lock_vars, poison_vars, history_vars, extract_vars>>

\* Frame of the path hardening model (resume in run_pipeline).
OnlyPaths == UNCHANGED <<pipeline_vars, checked_vars, stream_vars, parse_vars, contract_vars, strip_vars, marker_vars, atomic_vars, lock_vars, poison_vars, history_vars, extract_vars>>

\* Frame of the inbox lock model (acquire_inbox_lock, watch_inbox).
OnlyLock == UNCHANGED <<pipeline_vars, checked_vars, stream_vars, parse_vars, contract_vars, strip_vars, marker_vars, atomic_vars, path_vars, poison_vars, history_vars, extract_vars>>

\* Frame of the poison pill model (the loop of watch_inbox).
OnlyPoison == UNCHANGED <<pipeline_vars, checked_vars, stream_vars, parse_vars, contract_vars, strip_vars, marker_vars, atomic_vars, path_vars, lock_vars, history_vars, extract_vars>>

\* The variables of the finding bookkeeping behind a reviewer step.
OnlyHistory == UNCHANGED <<pipeline_vars, checked_vars, stream_vars, parse_vars, contract_vars, strip_vars, marker_vars, atomic_vars, path_vars, lock_vars, poison_vars, extract_vars>>

\* The variables of one adapter and of run_agent around extract_output.
OnlyExtract == UNCHANGED <<pipeline_vars, checked_vars, stream_vars, parse_vars, contract_vars, strip_vars, marker_vars, atomic_vars, path_vars, lock_vars, poison_vars, history_vars>>

Args == [resume : BOOLEAN, from_phase : {"none", "phase1", "phase2"},
         no_recover : BOOLEAN]

NoArgs == [resume |-> FALSE, from_phase |-> "none", no_recover |-> FALSE]

NoLocals ==
    [codex_review |-> Unset, codex_approval |-> "UNSET",
     claude_confirm |-> Unset, claude_approval |-> "UNSET",
     impl_report |-> Unset, implementation_ready |-> "UNSET",
     test_exit |-> -1, claude_review |-> Unset]

NoStop == [kind |-> "none", phase |-> "none", cycle |-> 0]

Ended(kind) == [kind |-> kind, phase |-> "none", cycle |-> 0]

\* AGENT_REGISTRY: the agents a call can be routed to.
AgentNames == {"claude", "codex", "gemini"}

\* The history of a call that has made no attempt yet.
NoHist ==
    [runs |-> [a \in AgentNames |-> 0], sleeps |-> 0, delay |-> 0,
     after |-> "start", quota_failed |-> {}]

NoOutcome == [kind |-> "none", agent |-> "none"]

\* No call of run_agent_checked is running and none has been made.
CheckedIdle ==
    /\ config = [allow_fallback_to_gemini |-> FALSE, claude_quota_reached |-> FALSE]
    /\ rpc = "idle"
    /\ request = [agent_key |-> "none", max_retries |-> 0]
    /\ effective_agent_key = "none"
    /\ attempt = 0
    /\ errors = <<>>
    /\ outcome = NoOutcome
    /\ hist = NoHist
    /\ checked_calls = 0

\* No invocation of run_pipeline is running; the work directory is empty.
PipelineIdle ==
    /\ state = NoState
    /\ disk = NoFile
    /\ checkpoints = [k \in CheckpointKeys |-> NoFile]
    /\ pc = "idle"
    /\ args = NoArgs
    /\ cycle = 0
    /\ locals = NoLocals
    /\ exc = "none"
    /\ saved_states = <<>>
    /\ calls = {}
    /\ last = NoStop
    /\ resumed = NoStop
    /\ invocations = 0

NoVerdict == [error |-> "unset", approval |-> "unset"]

\* No agent output is there to be validated.
ParseIdle ==
    /\ output = <<>>
    /\ vpc = "idle"
    /\ verdict = NoVerdict

NoFindings == [open_findings |-> <<>>, finding_history |-> {}]

NoReview ==
    [approval |-> "UNSET", open_findings |-> <<>>, has_open_findings |-> FALSE,
     status_map |-> {}, new_findings |-> {}, error |-> "unset"]

\* No reviewer step has been made and no state has been loaded.
ContractIdle ==
    /\ loaded_findings = NoFindings
    /\ findings = NoFindings
    /\ review = NoReview
    /\ previous_open_findings = <<>>
    /\ cpc = "idle"

\* No text has been written and nothing has been stripped.
StripIdle ==
    /\ fragments = <<>>
    /\ spc = "idle"
    /\ once = <<>>
    /\ twice = <<>>

\* No marker has been extracted.
NoExtract == [flag |-> "NONE", found |-> FALSE, ids |-> <<>>]

MarkersIdle ==
    /\ marker_lines = <<>>
    /\ markers_pc = "idle"
    /\ extracted = NoExtract

\* The canonical files the four writers write: the state file (save_state),
\* a checkpoint (write_cycle_checkpoint), a phase transcript
\* (append_markdown) and the task snapshot (write_file).
WritePaths == {"state.json", "phase1-cycle-1.json", "10_phase1_plan.md", "00_task.md"}

\* path.parent
parent(p) ==
    CASE p = "state.json" -> ".orchestrator"
      [] p = "phase1-cycle-1.json" -> ".orchestrator/checkpoints"
      [] OTHER -> ".orchestrator/runs/run"

\* A file's content: which version of the document it is and how many of
\* the chunks of that version have reached the file.
Absent == [exists |-> FALSE, version |-> 0, chunks |-> 0]

NoTmp == [exists |-> FALSE, dir |-> "none", version |-> 0, chunks |-> 0]

NoJob == [path |-> "none", old |-> Absent, new |-> 0]

AtomicIdle ==
    /\ files = [p \in WritePaths |-> Absent]
    /\ dirs = {}
    /\ tmp = NoTmp
    /\ stale = 0
    /\ job = NoJob
    /\ apc = "idle"
    /\ nwrites = 0

\* A path: absolute or relative to the working directory, and its
\* components. MissingPath stands for a key the document does not have.
AbsPath(components) == [present |-> TRUE, abs |-> TRUE, parts |-> components]

RelPath(components) == [present |-> TRUE, abs |-> FALSE, parts |-> components]

MissingPath == [present |-> FALSE, abs |-> FALSE, parts |-> <<>>]

\* Path.cwd()
cwd == AbsPath(<<"work">>)

ARTIFACT_ROOT_DIR == RelPath(<<".orchestrator">>)

ARTIFACT_RUNS_DIR == RelPath(<<".orchestrator", "runs">>)

\* path / name
Join(p, name) == [p EXCEPT !.parts = Append(@, name)]

\* No state document.
NoPathState ==
    [version |-> 0, task_file |-> MissingPath,
     artifacts |-> [run_id |-> "none", run_dir |-> MissingPath, task |-> MissingPath,
                    phase1_shared |-> MissingPath, phase2_shared |-> MissingPath],
     status |-> "pending", cycle |-> 0]

\* RunContext.__post_init__
DefaultCtx ==
    [run_artifact_dir |-> ARTIFACT_ROOT_DIR,
     task_snapshot_file |-> Join(ARTIFACT_ROOT_DIR, "00_task.md"),
     phase1_shared_file |-> Join(ARTIFACT_ROOT_DIR, "10_phase1_plan.md"),
     phase2_shared_file |-> Join(ARTIFACT_ROOT_DIR, "20_phase2_implementation.md")]

PathsIdle ==
    /\ path_state = NoPathState
    /\ path_args = [no_recover |-> FALSE]
    /\ ctx_paths = DefaultCtx
    /\ touched = {}
    /\ hpc = "idle"

MaxWatchers == 2

\* The watch_inbox instances started on one inbox directory.
Watchers == 1..MaxWatchers

LockIdle ==
    /\ fcntl = TRUE
    /\ flock = {}
    /\ wpc = [w \in Watchers |-> "stopped"]
    /\ wresult = [w \in Watchers |-> -1]
    /\ processed = [w \in Watchers |-> 0]
    /\ starts = 0

\* The task files put into the inbox, in the order of list_inbox_tasks.
InboxTasks == {"a.md", "b.md"}

PoisonIdle ==
    /\ inbox_max_retries = 1
    /\ location = [t \in InboxTasks |-> "inbox"]
    /\ sidecar = [t \in InboxTasks |-> -1]
    /\ success_marker = [t \in InboxTasks |-> FALSE]
    /\ ipc = "stopped"
    /\ inbox_task = "none"
    /\ executions = [t \in InboxTasks |-> 0]
    /\ failures = [t \in InboxTasks |-> 0]
    /\ exit_zero = [t \in InboxTasks |-> FALSE]
    /\ move_failed = [t \in InboxTasks |-> FALSE]
    /\ interrupts = 0

\* An empty dict.
EmptyMap == [id \in {} |-> "none"]

NoResponse ==
    [approval |-> "UNSET", has_open_findings |-> FALSE, open_findings |-> <<>>,
     status_map |-> EmptyMap, new_findings |-> EmptyMap, error |-> "unset"]

HistoryIdle ==
    /\ phase_findings = [open_findings |-> <<>>, finding_history |-> EmptyMap]
    /\ reviewer_response = NoResponse
    /\ prior_history = EmptyMap
    /\ bpc = "idle"

\* subprocess.run has not returned.
NoCapture == [returncode |-> -1, stdout |-> "", timeout |-> FALSE]

ExtractIdle ==
    /\ adapter = "none"
    /\ last_message_file = "none"
    /\ last_message = "absent"
    /\ written_message = "none"
    /\ captured = NoCapture
    /\ xpc = "idle"
    /\ agent_result = [kind |-> "none", text |-> ""]
    /\ agent_runs = 0

Channels == {"stdout", "stderr"}

NoProcess == [status |-> "none", returncode |-> -1, stdin_blocks |-> FALSE]

NoResult == [kind |-> "none", error |-> "none", stdout |-> <<>>, stderr |-> <<>>]

\* The locals of run_agent before the process is started.
NoStreamLocals ==
    /\ pending = "none"
    /\ pipe = [ch \in Channels |-> [written |-> 0, open |-> FALSE]]
    /\ reader = [ch \in Channels |-> [pc |-> "unstarted", taken |-> 0]]
    /\ stream_queue = <<>>
    /\ chunks = [ch \in Channels |-> <<>>]
    /\ completed_channels = {}
    /\ elapsed = FALSE
    /\ logged = FALSE

\* No call of run_agent is running and none has been made.
StreamIdle ==
    /\ stream_config = [dry_run |-> FALSE, agent_live_stream |-> FALSE]
    /\ mpc = "idle"
    /\ process = NoProcess
    /\ NoStreamLocals
    /\ cleanups = 0
    /\ result = NoResult
    /\ stream_calls = 0

Init ==
    /\ PipelineIdle
    /\ CheckedIdle
    /\ StreamIdle
    /\ ParseIdle
    /\ ExtractIdle
    /\ HistoryIdle
    /\ PoisonIdle
    /\ LockIdle
    /\ PathsIdle
    /\ AtomicIdle
    /\ MarkersIdle
    /\ StripIdle
    /\ ContractIdle

\* The invocation ends (return, uncaught exception or kill): its memory is gone.
ProcessEnds(how) ==
    /\ pc' = "idle"
    /\ state' = NoState
    /\ args' = NoArgs
    /\ cycle' = 0
    /\ locals' = NoLocals
    /\ exc' = "none"
    /\ calls' = {}
    /\ last' = how
    /\ resumed' = NoStop

\* ctx.save_state(s) as the only write of a step.
SaveState(s) ==
    /\ disk' = s
    /\ saved_states' = <<s>>

NoSave ==
    /\ disk' = disk
    /\ saved_states' = <<>>

\* "Default settings": --resume without --no-recover and without --from-phase.
DefaultResume(a) == a.resume /\ ~a.no_recover /\ a.from_phase = "none"

\* run_pipeline, fresh start: no --resume, or no state file to resume from
\* (an existing state file is overwritten).  --no-recover is not read here.
InitNewState ==
    /\ pc = "idle"
    /\ invocations < MaxInvocations
    /\ invocations' = invocations + 1
    /\ \E a \in Args :
        /\ ~a.resume \/ disk = NoFile
        /\ ~a.no_recover
        /\ args' = a
    /\ state' = InitState
    /\ SaveState(InitState)
    /\ pc' = "from_phase"
    /\ resumed' = NoStop
    /\ UNCHANGED <<checkpoints, cycle, locals, exc, calls, last>>
    /\ OnlyPipeline

\* run_pipeline, resume: load, normalise, recover from the checkpoint
\* (unless --no-recover) and save the recovered state.
ResumeState ==
    /\ pc = "idle"
    /\ invocations < MaxInvocations
    /\ invocations' = invocations + 1
    /\ \E a \in Args :
        /\ a.resume /\ disk # NoFile
        /\ args' = a
        /\ resumed' = IF DefaultResume(a) THEN last ELSE NoStop
        /\ LET loaded == EnsureStateShape(disk)
           IN  IF a.no_recover
               THEN state' = loaded /\ NoSave
               ELSE /\ state' = recover_state_from_checkpoint(checkpoints, loaded)
                    /\ SaveState(recover_state_from_checkpoint(checkpoints, loaded))
    /\ pc' = "from_phase"
    /\ UNCHANGED <<checkpoints, cycle, locals, exc, calls, last>>
    /\ OnlyPipeline

\* run_pipeline: --from-phase forces the current phase.
ApplyFromPhase ==
    /\ pc = "from_phase"
    /\ IF args.from_phase # "none"
       THEN /\ state' = [state EXCEPT !.phase = args.from_phase]
            /\ SaveState([state EXCEPT !.phase = args.from_phase])
       ELSE /\ state' = state
            /\ NoSave
    /\ args' = NoArgs
    /\ pc' = "preflight"
    /\ UNCHANGED <<checkpoints, cycle, locals, exc, calls, last, resumed, invocations>>
    /\ OnlyPipeline

\* run_pipeline: preflight passes, or the invocation returns 1.
Preflight ==
    /\ pc = "preflight"
    /\ \E ok \in BOOLEAN :
        IF ok
        THEN /\ pc' = "main1"
             /\ UNCHANGED <<state, args, cycle, locals, exc, calls, last, resumed, invocations>>
        ELSE ProcessEnds(Ended("rc1"))
    /\ NoSave
    /\ UNCHANGED <<checkpoints, invocations>>
    /\ OnlyPipeline

\* run_pipeline: phase 1 is run unless it is already completed.
DispatchPhase1 ==
    /\ pc = "main1"
    /\ IF state.phase \in PhaseKeys /\ state.phase1.status # "completed"
       THEN pc' = "p1_begin"
       ELSE pc' = "main2"
    /\ NoSave
    /\ UNCHANGED <<state, checkpoints, args, cycle, locals, exc, calls, last, resumed, invocations>>
    /\ OnlyPipeline

\* run_pipeline: the phase-1 check, the manual gate, and the start of phase 2.
DispatchPhase2 ==
    /\ pc = "main2"
    /\ NoSave
    /\ UNCHANGED <<checkpoints, invocations>>
    /\ IF state.phase1.status # "completed"
       THEN ProcessEnds(Ended("rc1"))
       ELSE \E declined \in BOOLEAN :
              IF declined /\ state.phase2.status # "completed"
              THEN ProcessEnds(Ended("rc1"))
              ELSE /\ pc' = IF state.phase2.status # "completed" THEN "p2_begin" ELSE "main3"
                   /\ UNCHANGED <<state, args, cycle, locals, exc, calls, last, resumed, invocations>>
    /\ OnlyPipeline

\* run_pipeline: the final check and the return code.
Finish ==
    /\ pc = "main3"
    /\ NoSave
    /\ UNCHANGED <<checkpoints, invocations>>
    /\ ProcessEnds(Ended(IF state.phase2.status # "completed" THEN "rc1" ELSE "rc0"))
    /\ OnlyPipeline


(***************************************************************************)
(* run_phase1                                                              *)
(***************************************************************************)

\* An agent call of the current cycle ends by raising QuotaReachedError.
RaiseQuota(agent_key, handler) ==
    /\ pc' = handler
    /\ exc' = agent_key
    /\ NoSave
    /\ UNCHANGED <<state, checkpoints, args, cycle, locals, calls, last, resumed, invocations>>

\* An agent call exhausts its retries: RuntimeError, which run_pipeline
\* does not catch.
RaiseRuntimeError ==
    /\ ProcessEnds(Ended("agent_error"))
    /\ NoSave
    /\ UNCHANGED <<checkpoints, invocations>>

\* run_phase1, entry: the phase is marked running and saved.
P1Begin ==
    /\ pc = "p1_begin"
    /\ state' = [state EXCEPT !.phase1.status = "running", !.phase = "phase1"]
    /\ SaveState(state')
    /\ cycle' = state.phase1.cycle + 1
    /\ locals' = NoLocals
    /\ pc' = "p1_loop"
    /\ UNCHANGED <<checkpoints, args, exc, calls, last, resumed, invocations>>
    /\ OnlyPipeline

\* The loop head taking its checkpoint after the cycle counter is set.
P1Checkpoint_AfterCounter ==
    /\ pc = "p1_loop"
    /\ cycle <= state.phase1.max_cycles
    /\ checkpoints' = WriteCycleCheckpoint(checkpoints, "phase1", cycle,
                                           [state EXCEPT !.phase1.cycle = cycle])
    /\ calls' = {}
    /\ locals' = NoLocals
    /\ pc' = "p1_ckpt"
    /\ NoSave
    /\ UNCHANGED <<state, args, cycle, exc, last, resumed, invocations>>
    /\ OnlyPipeline

\* run_phase1, loop head: the next cycle starts with its checkpoint.
P1Checkpoint ==
    /\ pc = "p1_loop"
    /\ cycle <= state.phase1.max_cycles
    /\ checkpoints' = WriteCycleCheckpoint(checkpoints, "phase1", cycle, state)
    /\ calls' = {}
    /\ locals' = NoLocals
    /\ pc' = "p1_ckpt"
    /\ NoSave
    /\ UNCHANGED <<state, args, cycle, exc, last, resumed, invocations>>
    /\ OnlyPipeline

\* run_phase1: the cycle counter is set and saved.
P1CycleSave ==
    /\ pc = "p1_ckpt"
    /\ state' = [state EXCEPT !.phase1.cycle = cycle, !.phase1.error = "none"]
    /\ SaveState(state')
    /\ pc' = "p1_plan"
    /\ resumed' = NoStop
    /\ UNCHANGED <<checkpoints, args, cycle, locals, exc, calls, last, invocations>>
    /\ OnlyPipeline

\* run_phase1: Claude plans (the plan only goes to the transcript).
P1Plan ==
    /\ pc = "p1_plan"
    /\ \/ /\ \E claude_plan \in AgentOutputs :
               run_agent_checked_returns(claude_plan, FALSE)
          /\ pc' = "p1_review"
          /\ calls' = calls \cup {"plan"}
          /\ NoSave
          /\ UNCHANGED <<state, checkpoints, args, cycle, locals, exc, last, resumed, invocations>>
       \/ RaiseQuota("claude", "quota1")
       \/ RaiseRuntimeError
    /\ OnlyPipeline

\* run_phase1: Codex reviews under the finding contract; open findings are
\* taken over into the state.
P1Review ==
    /\ pc = "p1_review"
    /\ \/ /\ \E codex_review \in AgentOutputs :
               /\ run_agent_checked_returns(codex_review, TRUE)
               /\ locals' = [locals EXCEPT
                      !.codex_review = codex_review,
                      !.codex_approval = OrNo(parse_flag(codex_review))]
               /\ state' = [state EXCEPT !.phase1.open_findings =
                                OrEmpty(parse_open_findings(codex_review))]
          /\ pc' = "p1_confirm"
          /\ calls' = calls \cup {"review"}
          /\ NoSave
          /\ UNCHANGED <<checkpoints, args, cycle, exc, last, resumed, invocations>>
       \/ RaiseQuota("codex", "quota1")
       \/ RaiseRuntimeError
    /\ OnlyPipeline

\* CrossCheck without the override: the planner's word is taken as it is.
CrossCheck_NoOverride(codex_approval, claude_approval) == claude_approval

\* The confirmation approval after the cross-check against the review.
CrossCheck(codex_approval, claude_approval) ==
    IF codex_approval = "NO" /\ claude_approval = "YES" THEN "NO" ELSE claude_approval

\* run_phase1: Claude confirms; the approvals are recorded and saved.
P1Confirm ==
    /\ pc = "p1_confirm"
    /\ \/ /\ \E claude_confirm \in AgentOutputs :
               /\ run_agent_checked_returns(claude_confirm, FALSE)
               /\ locals' = [locals EXCEPT
                      !.claude_confirm = claude_confirm,
                      !.claude_approval =
                          CrossCheck(locals.codex_approval, OrNo(parse_flag(claude_confirm)))]
          /\ state' = [state EXCEPT
                 !.phase1.codex_approval = locals'.codex_approval,
                 !.phase1.claude_approval = locals'.claude_approval]
          /\ SaveState(state')
          /\ pc' = "p1_decide"
          /\ calls' = calls \cup {"confirm"}
          /\ UNCHANGED <<checkpoints, args, cycle, exc, last, resumed, invocations>>
       \/ RaiseQuota("claude", "quota1")
       \/ RaiseRuntimeError
    /\ OnlyPipeline

\* Phase1Approved with the planner's confirmation left out.
Phase1Approved_ReviewerOnly(codex_approval, claude_approval) ==
    codex_approval = "YES"

\* The phase-1 completion condition.
Phase1Approved(codex_approval, claude_approval) ==
    codex_approval = "YES" /\ claude_approval = "YES"

\* run_phase1: completion, or on to the next cycle.
P1Decide ==
    /\ pc = "p1_decide"
    /\ IF Phase1Approved(locals.codex_approval, locals.claude_approval)
       THEN /\ state' = [state EXCEPT !.phase1.status = "completed", !.phase = "phase2"]
            /\ SaveState(state')
            /\ pc' = "main2"
            /\ cycle' = cycle
       ELSE /\ state' = state
            /\ NoSave
            /\ pc' = "p1_loop"
            /\ cycle' = cycle + 1
    /\ UNCHANGED <<checkpoints, args, locals, exc, calls, last, resumed, invocations>>
    /\ OnlyPipeline

\* P1Fail raising without marking the phase failed.
P1Fail_NotRecorded ==
    /\ pc = "p1_loop"
    /\ cycle > state.phase1.max_cycles
    /\ NoSave
    /\ ProcessEnds(Ended("failed"))
    /\ UNCHANGED <<checkpoints, invocations>>
    /\ OnlyPipeline

\* run_phase1: the loop is exhausted; the phase fails and RuntimeError is raised.
P1Fail ==
    /\ pc = "p1_loop"
    /\ cycle > state.phase1.max_cycles
    /\ SaveState([state EXCEPT !.phase1.status = "failed",
                               !.phase1.error = "Phase 1 reached max cycles without dual approval."])
    /\ ProcessEnds(Ended("failed"))
    /\ UNCHANGED <<checkpoints, invocations>>
    /\ OnlyPipeline


(***************************************************************************)
(* run_phase2                                                              *)
(***************************************************************************)

\* Exit codes of the test command (0, or a non-zero one).
TestExits == {0, 1}

\* run_phase2, entry: the phase is marked running and saved.
P2Begin ==
    /\ pc = "p2_begin"
    /\ state' = [state EXCEPT !.phase2.status = "running", !.phase = "phase2"]
    /\ SaveState(state')
    /\ cycle' = state.phase2.cycle + 1
    /\ locals' = NoLocals
    /\ pc' = "p2_loop"
    /\ UNCHANGED <<checkpoints, args, exc, calls, last, resumed, invocations>>
    /\ OnlyPipeline

\* run_phase2, loop head: the next cycle starts with its checkpoint.
P2Checkpoint ==
    /\ pc = "p2_loop"
    /\ cycle <= state.phase2.max_cycles
    /\ checkpoints' = WriteCycleCheckpoint(checkpoints, "phase2", cycle, state)
    /\ calls' = {}
    /\ locals' = NoLocals
    /\ pc' = "p2_ckpt"
    /\ NoSave
    /\ UNCHANGED <<state, args, cycle, exc, last, resumed, invocations>>
    /\ OnlyPipeline

\* run_phase2: the cycle counter is set and saved.
P2CycleSave ==
    /\ pc = "p2_ckpt"
    /\ state' = [state EXCEPT !.phase2.cycle = cycle, !.phase2.error = "none"]
    /\ SaveState(state')
    /\ pc' = "p2_impl"
    /\ resumed' = NoStop
    /\ UNCHANGED <<checkpoints, args, cycle, locals, exc, calls, last, invocations>>
    /\ OnlyPipeline

\* run_phase2: Codex implements and reports IMPLEMENTATION_READY.
P2Implement ==
    /\ pc = "p2_impl"
    /\ \/ /\ \E impl_report \in AgentOutputs :
               /\ run_agent_checked_returns(impl_report, FALSE)
               /\ locals' = [locals EXCEPT !.impl_report = impl_report]
          /\ pc' = "p2_tests"
          /\ calls' = calls \cup {"implement"}
          /\ NoSave
          /\ UNCHANGED <<state, checkpoints, args, cycle, exc, last, resumed, invocations>>
       \/ RaiseQuota("codex", "quota2")
       \/ RaiseRuntimeError
    /\ OnlyPipeline

\* run_phase2: the test command runs; its exit code goes into the state.
P2Tests ==
    /\ pc = "p2_tests"
    /\ \E test_exit \in TestExits :
        /\ locals' = [locals EXCEPT !.test_exit = test_exit]
        /\ state' = [state EXCEPT !.phase2.last_test_exit = test_exit]
    /\ pc' = "p2_review"
    /\ calls' = calls \cup {"tests"}
    /\ NoSave
    /\ UNCHANGED <<checkpoints, args, cycle, exc, last, resumed, invocations>>
    /\ OnlyPipeline

\* run_phase2: Claude reviews under the finding contract; the signals of
\* the cycle are recorded and saved.
P2Review ==
    /\ pc = "p2_review"
    /\ \/ /\ \E claude_review \in AgentOutputs :
               /\ run_agent_checked_returns(claude_review, TRUE)
               /\ locals' = [locals EXCEPT
                      !.claude_review = claude_review,
                      !.implementation_ready = OrNo(parse_flag(locals.impl_report)),
                      !.claude_approval = OrNo(parse_flag(claude_review))]
               /\ state' = [state EXCEPT
                      !.phase2.open_findings = OrEmpty(parse_open_findings(claude_review)),
                      !.phase2.implementation_ready = locals'.implementation_ready,
                      !.phase2.claude_approval = locals'.claude_approval]
          /\ SaveState(state')
          /\ pc' = "p2_decide"
          /\ calls' = calls \cup {"review"}
          /\ UNCHANGED <<checkpoints, args, cycle, exc, last, resumed, invocations>>
       \/ RaiseQuota("claude", "quota2")
       \/ RaiseRuntimeError
    /\ OnlyPipeline

\* Phase2Approved with the test exit code left out.
Phase2Approved_IgnoringTests(implementation_ready, test_exit, claude_approval) ==
    implementation_ready = "YES" /\ claude_approval = "YES"

\* The phase-2 completion condition.
Phase2Approved(implementation_ready, test_exit, claude_approval) ==
    implementation_ready = "YES" /\ test_exit = 0 /\ claude_approval = "YES"

\* run_phase2: completion, or on to the next cycle.
P2Decide ==
    /\ pc = "p2_decide"
    /\ IF Phase2Approved(locals.implementation_ready, locals.test_exit, locals.claude_approval)
       THEN /\ state' = [state EXCEPT !.phase2.status = "completed", !.phase = "done"]
            /\ SaveState(state')
            /\ pc' = "main3"
            /\ cycle' = cycle
       ELSE /\ state' = state
            /\ NoSave
            /\ pc' = "p2_loop"
            /\ cycle' = cycle + 1
    /\ UNCHANGED <<checkpoints, args, locals, exc, calls, last, resumed, invocations>>
    /\ OnlyPipeline

\* run_phase2: the loop is exhausted; the phase fails and RuntimeError is raised.
P2Fail ==
    /\ pc = "p2_loop"
    /\ cycle > state.phase2.max_cycles
    /\ SaveState([state EXCEPT !.phase2.status = "failed",
                               !.phase2.error = "Phase 2 reached max cycles without approval/pass condition."])
    /\ ProcessEnds(Ended("failed"))
    /\ UNCHANGED <<checkpoints, invocations>>
    /\ OnlyPipeline

(***************************************************************************)
(* Quota handlers of run_pipeline, and the end of a process by a crash     *)
(***************************************************************************)

\* How an invocation that froze `phase` in its cycle `c` ended.
Frozen(phase, c) == [kind |-> "frozen", phase |-> phase, cycle |-> c]

\* run_pipeline: QuotaReachedError out of run_phase1 freezes and returns 2.
FreezePhase1 ==
    /\ pc = "quota1"
    /\ disk' = freeze_current_phase(state, QuotaErrorText(exc)).saved[
                   Len(freeze_current_phase(state, QuotaErrorText(exc)).saved)]
    /\ saved_states' = freeze_current_phase(state, QuotaErrorText(exc)).saved
    /\ ProcessEnds(Frozen("phase1", cycle))
    /\ UNCHANGED <<checkpoints, invocations>>
    /\ OnlyPipeline

\* run_pipeline: QuotaReachedError out of run_phase2 freezes and returns 2.
FreezePhase2 ==
    /\ pc = "quota2"
    /\ disk' = freeze_current_phase(state, QuotaErrorText(exc)).saved[
                   Len(freeze_current_phase(state, QuotaErrorText(exc)).saved)]
    /\ saved_states' = freeze_current_phase(state, QuotaErrorText(exc)).saved
    /\ ProcessEnds(Frozen("phase2", cycle))
    /\ UNCHANGED <<checkpoints, invocations>>
    /\ OnlyPipeline

\* Positions between the checkpoint write of a cycle and the state save
\* that follows it.
AfterCheckpoint == {"p1_ckpt", "p2_ckpt"}

\* The process is killed (or the machine goes down) at any position: the
\* files stay as the last completed atomic write left them.
Crash ==
    /\ pc # "idle"
    /\ ProcessEnds(IF pc \in AfterCheckpoint
                   THEN [kind |-> "crash_ckpt",
                         phase |-> IF pc = "p1_ckpt" THEN "phase1" ELSE "phase2",
                         cycle |-> cycle]
                   ELSE Ended("crash"))
    /\ NoSave
    /\ UNCHANGED <<checkpoints, invocations>>
    /\ OnlyPipeline

Next ==
    \/ InitNewState
    \/ ResumeState
    \/ ApplyFromPhase
    \/ Preflight
    \/ DispatchPhase1
    \/ DispatchPhase2
    \/ Finish
    \/ P1Begin
    \/ P1Checkpoint
    \/ P1CycleSave
    \/ P1Plan
    \/ P1Review
    \/ P1Confirm
    \/ P1Decide
    \/ P1Fail
    \/ P2Begin
    \/ P2Checkpoint
    \/ P2CycleSave
    \/ P2Implement
    \/ P2Tests
    \/ P2Review
    \/ P2Decide
    \/ P2Fail
    \/ FreezePhase1
    \/ FreezePhase2
    \/ Crash

Spec == Init /\ [][Next]_vars

TypeOK ==
    /\ pc \in {"idle", "from_phase", "preflight", "main1", "main2", "main3",
               "p1_begin", "p1_loop", "p1_ckpt", "p1_plan", "p1_review",
               "p1_confirm", "p1_decide", "quota1",
               "p2_begin", "p2_loop", "p2_ckpt", "p2_impl", "p2_tests",
               "p2_review", "p2_decide", "quota2"}
    /\ (pc = "idle") = (state = NoState)


(***************************************************************************)
(* Properties                                                              *)
(***************************************************************************)

\* The documents that hold a RunState: memory, state file, checkpoint files.
Documents ==
    {d \in {state, disk} \cup {checkpoints[k] : k \in CheckpointKeys} :
        d # NoState /\ d # NoFile}

StatusIn(doc, phase) ==
    IF doc = NoState \/ doc = NoFile THEN "absent"
    ELSE IF phase = "phase1" THEN doc.phase1.status ELSE doc.phase2.status

\* phase `phase` is completed in doc' and was present and not completed in doc.
Completes(before, after, phase) ==
    /\ StatusIn(after, phase) = "completed"
    /\ StatusIn(before, phase) \notin {"completed", "absent"}

\* C1: phase 2 is marked completed (in memory or in the state file) only by
\* a cycle in which the implementer call, the test run and the review have
\* all taken place, the implementer reported IMPLEMENTATION_READY: YES, the
\* test command exited with 0 and the reviewer gave CLAUDE_APPROVAL: YES
\* with no open finding; state.phase then becomes done.  A decision taken
\* with one of the three signals false leaves the phase running and moves
\* the loop to the next cycle number.
C1_Phase2AndGate ==
    [][ /\ (Completes(state, state', "phase2") \/ Completes(disk, disk', "phase2")) =>
            /\ pc = "p2_decide"
            /\ {"implement", "tests", "review"} \subseteq calls
            /\ locals.impl_report.flag = "YES"
            /\ locals.test_exit = 0
            /\ locals.claude_review.flag = "YES"
            /\ locals.claude_review.has_open_findings
            /\ locals.claude_review.open_findings = {}
            /\ state'.phase = "done"
            /\ disk' = state'
        /\ ( /\ pc = "p2_decide"
             /\ pc' # "idle"
             /\ \/ locals.impl_report.flag # "YES"
                \/ locals.test_exit # 0
                \/ locals.claude_review.flag # "YES" ) =>
            /\ pc' = "p2_loop"
            /\ cycle' = cycle + 1
            /\ state'.phase2.status = "running"
            /\ disk'.phase2.status = "running"
      ]_vars

\* C1 witness: phase 2 has just completed on three positive signals.
C1_Witness ==
    /\ pc = "main3"
    /\ state.phase2.status = "completed"
    /\ locals.impl_report.flag = "YES"
    /\ locals.test_exit = 0
    /\ locals.claude_review.flag = "YES"

\* C2: phase 1 is marked completed (in memory or in the state file) only by
\* a cycle in which the review and the confirmation have both taken place,
\* the reviewer gave CODEX_APPROVAL: YES with no open finding and the
\* planner confirmed with CLAUDE_APPROVAL: YES; state.phase then becomes
\* phase2.
C2_Phase1Completion ==
    [][ (Completes(state, state', "phase1") \/ Completes(disk, disk', "phase1")) =>
            /\ pc = "p1_decide"
            /\ {"review", "confirm"} \subseteq calls
            /\ locals.codex_review.flag = "YES"
            /\ locals.codex_review.has_open_findings
            /\ locals.codex_review.open_findings = {}
            /\ locals.claude_confirm.flag = "YES"
            /\ state'.phase = "phase2"
            /\ disk' = state'
      ]_vars

\* C2 witness: phase 1 has just completed in its second cycle.
C2_Witness ==
    /\ pc = "main2"
    /\ state.phase1.status = "completed"
    /\ state.phase1.cycle = 2
    /\ locals.codex_review.flag = "YES"
    /\ locals.claude_confirm.flag = "YES"

\* C3: once the confirmation step of a phase-1 cycle has finished, if the
\* reviewer's approval of that cycle was NO or the reviewer reported an open
\* finding, the recorded phase1.claude_approval is NO (in memory and in the
\* state file), whatever the confirmation said, and phase 1 is not completed.
C3_CrossCheck ==
    ( /\ pc \in {"p1_decide", "p1_loop", "main2"}
      /\ "confirm" \in calls
      /\ \/ locals.codex_review.flag = "NO"
         \/ locals.codex_review.open_findings # {} ) =>
        /\ state.phase1.claude_approval = "NO"
        /\ disk.phase1.claude_approval = "NO"
        /\ state.phase1.status # "completed"
        /\ disk.phase1.status # "completed"

\* C3 witness: the reviewer said NO, the planner confirmed YES, and the
\* confirmation step has recorded its result.
C3_Witness ==
    /\ pc = "p1_decide"
    /\ locals.codex_review.flag = "NO"
    /\ locals.claude_confirm.flag = "YES"

\* Positions inside run_phase2.
Phase2Positions ==
    {"p2_begin", "p2_loop", "p2_ckpt", "p2_impl", "p2_tests", "p2_review",
     "p2_decide", "quota2"}

\* C4: in every RunState held in memory, in the state file or in a
\* checkpoint, phase2.status # pending implies phase1.status = completed;
\* and while the invocation is inside run_phase2 (its checkpoints, agent
\* calls and test runs), phase1.status is completed.
C4_PhaseOrdering ==
    /\ \A d \in Documents :
          d.phase2.status # "pending" => d.phase1.status = "completed"
    /\ pc \in Phase2Positions =>
          /\ state.phase1.status = "completed"
          /\ disk.phase1.status = "completed"
    /\ \A k \in CheckpointKeys :
          (k.phase = "phase2" /\ checkpoints[k] # NoFile) =>
              checkpoints[k].phase1.status = "completed"

\* C4 witness: a resumed invocation, started with --from-phase, is running
\* the tests of a phase-2 cycle.
C4_Witness ==
    /\ pc = "p2_tests"
    /\ invocations = 2
    /\ state.phase2.cycle = 2


\* C5 (as claimed): when the previous invocation froze a phase during cycle
\* c and this invocation is a default resume, the first cycle it starts is
\* cycle c of that phase.
C5_ResumeReattemptsFrozenCycle ==
    (resumed.kind = "frozen" /\ pc \in AfterCheckpoint) =>
        /\ cycle = resumed.cycle
        /\ (pc = "p1_ckpt") = (resumed.phase = "phase1")

\* C6 (as claimed): when the previous invocation crashed between the
\* checkpoint write of cycle c and the state save that follows it, a default
\* resume continues from exactly the checkpoint of (phase, c), and the first
\* cycle it starts is cycle c.
C6_CrashAfterCheckpoint ==
    resumed.kind = "crash_ckpt" =>
        /\ pc = "from_phase" =>
              state = checkpoints[[phase |-> resumed.phase, cycle |-> resumed.cycle]]
        /\ pc \in AfterCheckpoint => cycle = resumed.cycle

CycleIn(doc, phase) ==
    IF doc = NoState \/ doc = NoFile THEN 0
    ELSE IF phase = "phase1" THEN doc.phase1.cycle ELSE doc.phase2.cycle

PhaseOf(doc, phase) == IF phase = "phase1" THEN doc.phase1 ELSE doc.phase2

OtherPhase(phase) == IF phase = "phase1" THEN "phase2" ELSE "phase1"

\* The step is the quota handler of run_pipeline freezing `phase`.
FreezeStep(phase) ==
    /\ pc = (IF phase = "phase1" THEN "quota1" ELSE "quota2")
    /\ last'.kind = "frozen"

\* The states the unit tests of freeze_current_phase start from: the
\* current phase running with any cycle counter, 0 included.
FreezeInputs ==
    {[InitState EXCEPT !.phase = ph,
                       !.phase1.status = IF ph = "phase1" THEN "running" ELSE "completed",
                       !.phase1.cycle = c1,
                       !.phase2.status = IF ph = "phase1" THEN "pending" ELSE "running",
                       !.phase2.cycle = c2] :
        ph \in PhaseKeys, c1 \in 0..Phase1MaxCycles, c2 \in 0..Phase2MaxCycles}

\* C7: in the state file a phase becomes frozen only in the quota handler
\* of that phase, while a QuotaReachedError is propagating; the handler
\* stores status frozen and the text of the error, lowers the phase's cycle
\* counter by exactly one if it was greater than 0 and leaves it at 0
\* otherwise (never negative), leaves the other phase as it was, and calls
\* save_state exactly once, with the frozen state.  In run_pipeline the
\* handler only runs after a cycle has stored its number, so the cycle = 0
\* case is stated for freeze_current_phase called on its own as well.
C7_FreezeEffect ==
    /\ [](\A s \in FreezeInputs, agent_key \in AgentKeys :
            LET r == freeze_current_phase(s, QuotaErrorText(agent_key))
                before == PhaseOf(s, s.phase)
                after == PhaseOf(r.state, s.phase)
            IN  /\ after = [before EXCEPT
                                !.status = "frozen",
                                !.error = QuotaErrorText(agent_key),
                                !.cycle = IF before.cycle > 0 THEN before.cycle - 1 ELSE 0]
                /\ after.cycle >= 0
                /\ PhaseOf(r.state, OtherPhase(s.phase)) = PhaseOf(s, OtherPhase(s.phase))
                /\ r.state.phase = s.phase
                /\ r.saved = <<r.state>>)
    /\ [][ \A phase \in PhaseKeys :
             /\ ( /\ StatusIn(disk', phase) = "frozen"
                  /\ StatusIn(disk, phase) # "frozen" ) =>
                     /\ FreezeStep(phase)
                     /\ exc \in AgentKeys
             /\ FreezeStep(phase) =>
                     /\ PhaseOf(disk', phase).status = "frozen"
                     /\ PhaseOf(disk', phase).error = QuotaErrorText(exc)
                     /\ PhaseOf(disk', phase).cycle =
                           IF PhaseOf(state, phase).cycle > 0
                           THEN PhaseOf(state, phase).cycle - 1
                           ELSE 0
                     /\ PhaseOf(disk', phase).cycle >= 0
                     /\ PhaseOf(disk', OtherPhase(phase)) = PhaseOf(state, OtherPhase(phase))
                     /\ PhaseOf(disk', OtherPhase(phase)) = PhaseOf(disk, OtherPhase(phase))
                     /\ disk'.phase = phase
                     /\ Len(saved_states') = 1
                     /\ saved_states'[1] = disk'
         ]_vars

\* C7 witness: phase 2 was frozen in its second cycle by a quota error of
\* codex; the state file holds cycle 1.
C7_Witness ==
    /\ pc = "idle"
    /\ last = Frozen("phase2", 2)
    /\ disk.phase2.status = "frozen"
    /\ disk.phase2.cycle = 1
    /\ disk.phase2.error = QuotaErrorText("codex")

(***************************************************************************)
(* The recovery rule on its own: a resume applied to any persisted state   *)
(* and any set of checkpoint files                                         *)
(***************************************************************************)

Statuses == {"pending", "running", "completed", "failed", "frozen"}

\* Persisted states by phase, status and cycle counter of both phases.
PersistedSamples ==
    {[InitState EXCEPT !.phase = ph,
                       !.phase1.status = s1, !.phase1.cycle = c1,
                       !.phase2.status = s2, !.phase2.cycle = c2] :
        ph \in {"phase1", "phase2", "done"},
        s1 \in Statuses, c1 \in 0..Phase1MaxCycles,
        s2 \in Statuses, c2 \in 0..Phase2MaxCycles}

\* The document checkpoint_cycle_state writes at the head of cycle k.cycle.
CheckpointDoc(k) ==
    IF k.phase = "phase1"
    THEN [InitState EXCEPT !.phase1.status = "running", !.phase1.cycle = k.cycle - 1]
    ELSE [InitState EXCEPT !.phase = "phase2",
                           !.phase1.status = "completed", !.phase1.cycle = 1,
                           !.phase1.codex_approval = "YES",
                           !.phase1.claude_approval = "YES",
                           !.phase2.status = "running", !.phase2.cycle = k.cycle - 1]

InitRecover ==
    /\ CheckedIdle
    /\ StreamIdle
    /\ ParseIdle
    /\ ExtractIdle
    /\ HistoryIdle
    /\ PoisonIdle
    /\ LockIdle
    /\ PathsIdle
    /\ AtomicIdle
    /\ MarkersIdle
    /\ StripIdle
    /\ ContractIdle
    /\ state = NoState
    /\ disk \in PersistedSamples
    /\ \E present \in SUBSET CheckpointKeys :
          checkpoints = [k \in CheckpointKeys |->
                            IF k \in present THEN CheckpointDoc(k) ELSE NoFile]
    /\ pc = "idle"
    /\ args = NoArgs
    /\ cycle = 0
    /\ locals = NoLocals
    /\ exc = "none"
    /\ saved_states = <<>>
    /\ calls = {}
    /\ last = NoStop
    /\ resumed = NoStop
    /\ invocations = 0

NextRecover == ResumeState

SpecRecover == InitRecover /\ [][NextRecover]_vars

\* C8: a resume (recovery not disabled) replaces the loaded RunState by the
\* checkpoint of (phase, cycle) exactly when the persisted current phase is
\* phase1 or phase2, its status is running or frozen, its cycle is greater
\* than 0 and that checkpoint exists, and then by the whole checkpoint; in
\* every other case the loaded state is kept as it is; in both cases the
\* invocation goes on.
C8_RecoveryRule ==
    [][ ( /\ pc = "idle"
          /\ disk # NoFile
          /\ args'.resume
          /\ ~args'.no_recover ) =>
            LET loaded == EnsureStateShape(disk)
                current == IF loaded.phase = "phase1" THEN loaded.phase1 ELSE loaded.phase2
                key == [phase |-> loaded.phase, cycle |-> current.cycle]
                applies ==
                    /\ loaded.phase \in {"phase1", "phase2"}
                    /\ current.status \in {"running", "frozen"}
                    /\ current.cycle > 0
                    /\ key \in CheckpointKeys
                    /\ checkpoints[key] # NoFile
            IN  /\ state' = IF applies THEN checkpoints[key] ELSE loaded
                /\ pc' = "from_phase"
      ]_vars

\* C8 witness: a resume has replaced the state by the checkpoint of
\* (phase2, 2).
C8_Witness ==
    /\ pc = "from_phase"
    /\ args.resume /\ ~args.no_recover
    /\ state = CheckpointDoc([phase |-> "phase2", cycle |-> 2])
    /\ checkpoints[[phase |-> "phase2", cycle |-> 2]] = state

\* The step starts a new run (the state file is created or overwritten).
FreshStartStep == pc = "idle" /\ ~(args'.resume /\ disk # NoFile)

\* The step is a resume that applies the recovery rule.
RecoveryStep == pc = "idle" /\ disk # NoFile /\ args'.resume /\ ~args'.no_recover

\* C9 (as claimed): within a run, a cycle counter in the state file
\* decreases only at a freeze, and then by exactly one.
C9_CycleMonotoneExceptFreeze ==
    [][ \A phase \in PhaseKeys :
          CycleIn(disk', phase) < CycleIn(disk, phase) =>
              \/ FreshStartStep
              \/ /\ FreezeStep(phase)
                 /\ CycleIn(disk', phase) = CycleIn(disk, phase) - 1
      ]_vars

\* C9 (amended): within a run, a cycle counter in the state file decreases
\* only at a freeze or when a resume restores a checkpoint, and each time by
\* exactly one.
C9_CycleMonotoneExceptFreezeOrRecovery ==
    [][ \A phase \in PhaseKeys :
          CycleIn(disk', phase) < CycleIn(disk, phase) =>
              \/ FreshStartStep
              \/ /\ FreezeStep(phase) \/ RecoveryStep
                 /\ CycleIn(disk', phase) = CycleIn(disk, phase) - 1
      ]_vars

\* C9 witness: a freeze in cycle 2 of phase 1 lowered the counter to 1 and
\* the resume that followed restored the checkpoint of cycle 1, lowering it
\* to 0.
C9_Witness ==
    /\ pc = "from_phase"
    /\ resumed = Frozen("phase1", 2)
    /\ disk.phase1.cycle = 0


\* Positions inside the loop body of run_phase1 / run_phase2.
Phase1Body == {"p1_ckpt", "p1_plan", "p1_review", "p1_confirm", "p1_decide"}

Phase2Body == {"p2_ckpt", "p2_impl", "p2_tests", "p2_review", "p2_decide"}

Phase1Positions == {"p1_begin", "p1_loop", "quota1"} \cup Phase1Body

\* The steps left in the loop body, by position.
BodyOffset(position) ==
    CASE position \in {"p1_ckpt", "p2_ckpt"} -> 5
      [] position \in {"p1_plan", "p2_impl"} -> 4
      [] position \in {"p1_review", "p2_tests"} -> 3
      [] position \in {"p1_confirm", "p2_review"} -> 2
      [] OTHER -> 1

\* An upper bound on the steps an invocation can still take: it counts the
\* positions left in the current cycle, six per cycle still allowed, and the
\* positions of run_pipeline that follow.
StepsLeft ==
    LET top2 == 6 * Phase2MaxCycles + 4
        top1 == top2 + 1 + 6 * Phase1MaxCycles + 4
    IN  CASE pc = "idle" -> 0
          [] pc \in {"main3", "quota1", "quota2"} -> 1
          [] pc = "p2_loop" ->
                IF cycle > Phase2MaxCycles THEN 1
                ELSE 2 + 6 * (Phase2MaxCycles - cycle + 1)
          [] pc \in Phase2Body ->
                2 + 6 * (Phase2MaxCycles - cycle) + BodyOffset(pc)
          [] pc = "p2_begin" -> top2
          [] pc = "main2" -> top2 + 1
          [] pc = "p1_loop" ->
                IF cycle > Phase1MaxCycles THEN 1
                ELSE top2 + 2 + 6 * (Phase1MaxCycles - cycle + 1)
          [] pc \in Phase1Body ->
                top2 + 2 + 6 * (Phase1MaxCycles - cycle) + BodyOffset(pc)
          [] pc = "p1_begin" -> top1
          [] pc = "main1" -> top1 + 1
          [] pc = "preflight" -> top1 + 2
          [] OTHER -> top1 + 3

\* A step of the running invocation (not a start, not a crash).
InvocationStep ==
    \/ ApplyFromPhase \/ Preflight \/ DispatchPhase1 \/ DispatchPhase2 \/ Finish
    \/ P1Begin \/ P1Checkpoint \/ P1CycleSave \/ P1Plan \/ P1Review
    \/ P1Confirm \/ P1Decide \/ P1Fail
    \/ P2Begin \/ P2Checkpoint \/ P2CycleSave \/ P2Implement \/ P2Tests
    \/ P2Review \/ P2Decide \/ P2Fail
    \/ FreezePhase1 \/ FreezePhase2

\* C10: inside a loop body the cycle number is between 1 and max_cycles, and
\* no stored cycle counter exceeds max_cycles; when the loop is exhausted
\* the phase is stored as failed with its error text and the invocation ends
\* with that error; a phase function is left only with the phase completed,
\* failed or frozen, by an agent-call error (the phase stays running), or by
\* the death of the process; and every invocation ends: at every position
\* a step is possible, and every step lowers a bound on the steps left.
C10_BoundedCycles ==
    /\ [](/\ pc \in Phase1Body => (cycle >= 1 /\ cycle <= state.phase1.max_cycles)
          /\ pc \in Phase2Body => (cycle >= 1 /\ cycle <= state.phase2.max_cycles)
          /\ \A d \in Documents :
                /\ d.phase1.cycle <= d.phase1.max_cycles
                /\ d.phase2.cycle <= d.phase2.max_cycles)
    /\ [][ /\ (pc = "p1_loop" /\ cycle > state.phase1.max_cycles /\ last'.kind # "crash") =>
                /\ pc' = "idle"
                /\ last'.kind = "failed"
                /\ disk'.phase1.status = "failed"
                /\ disk'.phase1.error = "Phase 1 reached max cycles without dual approval."
           /\ (pc = "p2_loop" /\ cycle > state.phase2.max_cycles /\ last'.kind # "crash") =>
                /\ pc' = "idle"
                /\ last'.kind = "failed"
                /\ disk'.phase2.status = "failed"
                /\ disk'.phase2.error = "Phase 2 reached max cycles without approval/pass condition."
           /\ (pc \in Phase1Positions /\ pc' \notin Phase1Positions) =>
                \/ pc' = "main2" /\ disk'.phase1.status = "completed"
                \/ pc' = "idle" /\ last'.kind = "failed" /\ disk'.phase1.status = "failed"
                \/ pc' = "idle" /\ last'.kind = "frozen" /\ disk'.phase1.status = "frozen"
                \/ pc' = "idle" /\ last'.kind = "agent_error" /\ disk'.phase1.status = "running"
                \/ pc' = "idle" /\ last'.kind \in {"crash", "crash_ckpt"}
           /\ (pc \in Phase2Positions /\ pc' \notin Phase2Positions) =>
                \/ pc' = "main3" /\ disk'.phase2.status = "completed"
                \/ pc' = "idle" /\ last'.kind = "failed" /\ disk'.phase2.status = "failed"
                \/ pc' = "idle" /\ last'.kind = "frozen" /\ disk'.phase2.status = "frozen"
                \/ pc' = "idle" /\ last'.kind = "agent_error" /\ disk'.phase2.status = "running"
                \/ pc' = "idle" /\ last'.kind \in {"crash", "crash_ckpt"}
           /\ pc # "idle" => StepsLeft' < StepsLeft
         ]_vars
    /\ [](pc # "idle" => ENABLED InvocationStep)

\* C10 witness: phase 2 has used up its cycles and is stored as failed.
C10_Witness ==
    /\ pc = "idle"
    /\ last.kind = "failed"
    /\ disk.phase2.status = "failed"
    /\ disk.phase2.cycle = Phase2MaxCycles
    /\ disk.phase2.error = "Phase 2 reached max cycles without approval/pass condition."


(***************************************************************************)
(* agent_runtime.py: run_agent_checked, with run_agent as one step that    *)
(* returns an output or raises                                             *)
(***************************************************************************)

\* --max-agent-retries, from 0 up to this value.
MaxRetries == 3

\* Calls of run_agent_checked in one run (they share the config object).
MaxCheckedCalls == 2

\* Texts are sequences of words.  is_quota_or_rate_limit_error: the markers.
QuotaMarkers ==
    {<<"quota">>, <<"hit", "your", "limit">>, <<"you've", "hit", "your", "limit">>,
     <<"usage", "cap">>, <<"rate", "limit">>, <<"too", "many", "requests">>,
     <<"429">>, <<"insufficient", "credits">>,
     <<"credit", "balance", "is", "too", "low">>, <<"usage", "limit">>,
     <<"resource", "exhausted">>}

\* str.lower on the words that occur with capitals.
Lower(word) ==
    CASE word = "Too" -> "too"
      [] word = "Many" -> "many"
      [] word = "Requests" -> "requests"
      [] word = "QUOTA" -> "quota"
      [] OTHER -> word

\* `marker in raw`
Contains(text, marker) ==
    \E i \in 1..(Len(text) - Len(marker) + 1) :
        \A j \in 1..Len(marker) : Lower(text[i + j - 1]) = marker[j]

is_quota_or_rate_limit_error(text) == \E marker \in QuotaMarkers : Contains(text, marker)

\* compute_retry_backoff_seconds without the floor for quota errors.
compute_retry_backoff_seconds_NoFloor(error_text, n) ==
    LET exponent == IF n - 1 > 0 THEN n - 1 ELSE 0
        doubled == 2 * (2 ^ exponent)
    IN  IF doubled < 30 THEN doubled ELSE 30

compute_retry_backoff_seconds(error_text, n) ==
    LET exponent == IF n - 1 > 0 THEN n - 1 ELSE 0
        doubled == 2 * (2 ^ exponent)
        exponential == IF doubled < 30 THEN doubled ELSE 30
    IN  IF is_quota_or_rate_limit_error(error_text)
        THEN (IF exponential > 10 THEN exponential ELSE 10)
        ELSE exponential

\* str(exc) of the exceptions run_agent raises for an agent: non-zero exit
\* with a quota text, with a rate-limit text, a timeout, empty output.
FailureTexts(agent_key) ==
    {<<agent_key, "failed:", "usage", "cap", "reached">>,
     <<agent_key, "failed:", "429", "Too", "Many", "Requests">>,
     <<agent_key, "timed", "out", "after", "1800s.">>,
     <<agent_key, "returned", "empty", "output.">>}

\* Texts validate_output_contract rejects an output with.
ValidationErrors ==
    {<<"missing", "required", "final", "completion", "marker">>,
     <<"invalid", "finding", "id", "'", "QUOTA", "'">>}

Returned(agent_key) == [kind |-> "returned", agent |-> agent_key]

RaisedQuota(agent_key) == [kind |-> "QuotaReachedError", agent |-> agent_key]

RaisedRuntimeError(agent_key) == [kind |-> "RuntimeError", agent |-> agent_key]

\* run_agent(agents[agent_key], ...) has been executed once more.
Ran(agent_key, quota_failure) ==
    [hist EXCEPT !.runs[agent_key] = @ + 1,
                 !.after = "run",
                 !.quota_failed = IF quota_failure THEN @ \cup {agent_key} ELSE @]

\* The call ends: its locals are gone.
CallEnds(how) ==
    /\ outcome' = how
    /\ rpc' = "idle"
    /\ request' = [agent_key |-> "none", max_retries |-> 0]
    /\ effective_agent_key' = "none"
    /\ attempt' = 0
    /\ errors' = <<>>

\* StartCall ignoring the sticky flag.
StartCall_NoSticky ==
    /\ rpc = "idle"
    /\ checked_calls < MaxCheckedCalls
    /\ checked_calls' = checked_calls + 1
    /\ \E agent_key \in AgentKeys, max_retries \in 0..MaxRetries :
        /\ request' = [agent_key |-> agent_key, max_retries |-> max_retries]
        /\ effective_agent_key' = agent_key
    /\ attempt' = 1
    /\ errors' = <<>>
    /\ hist' = NoHist
    /\ outcome' = NoOutcome
    /\ rpc' = "try"
    /\ UNCHANGED config
    /\ OnlyChecked

\* run_agent_checked, entry: the routing of the call.
StartCall ==
    /\ rpc = "idle"
    /\ checked_calls < MaxCheckedCalls
    /\ checked_calls' = checked_calls + 1
    /\ \E agent_key \in AgentKeys, max_retries \in 0..MaxRetries :
        /\ request' = [agent_key |-> agent_key, max_retries |-> max_retries]
        /\ effective_agent_key' =
              IF /\ agent_key = "claude"
                 /\ config.allow_fallback_to_gemini
                 /\ config.claude_quota_reached
              THEN "gemini"
              ELSE agent_key
    /\ attempt' = 1
    /\ errors' = <<>>
    /\ hist' = NoHist
    /\ outcome' = NoOutcome
    /\ rpc' = "try"
    /\ UNCHANGED config
    /\ OnlyChecked

\* The attempt yields an output that passes the contract: it is returned.
AttemptReturns ==
    /\ rpc = "try"
    /\ hist' = Ran(effective_agent_key, FALSE)
    /\ CallEnds(Returned(effective_agent_key))
    /\ UNCHANGED <<config, checked_calls>>
    /\ OnlyChecked

\* The attempt yields an output that fails the contract.
AttemptInvalid ==
    /\ rpc = "try"
    /\ \E validation_error \in ValidationErrors :
          errors' = Append(errors, validation_error)
    /\ hist' = Ran(effective_agent_key, FALSE)
    /\ rpc' = "retry"
    /\ UNCHANGED <<config, request, effective_agent_key, attempt, outcome, checked_calls>>
    /\ OnlyChecked

\* AttemptRaises treating a quota error like any other failure.
AttemptRaises_RetriesQuota ==
    /\ rpc = "try"
    /\ \E error_text \in FailureTexts(effective_agent_key) :
        /\ hist' = Ran(effective_agent_key, is_quota_or_rate_limit_error(error_text))
        /\ errors' = Append(errors, error_text)
        /\ rpc' = "retry"
        /\ UNCHANGED <<request, effective_agent_key, attempt, outcome>>
    /\ UNCHANGED <<config, checked_calls>>
    /\ OnlyChecked

\* run_agent raises: fallback for a quota error of claude, QuotaReachedError
\* for any other quota error, the retry path otherwise.
AttemptRaises ==
    /\ rpc = "try"
    /\ \E error_text \in FailureTexts(effective_agent_key) :
        /\ hist' = Ran(effective_agent_key, is_quota_or_rate_limit_error(error_text))
        /\ IF /\ config.allow_fallback_to_gemini
              /\ effective_agent_key = "claude"
              /\ is_quota_or_rate_limit_error(error_text)
           THEN /\ errors' = Append(errors, error_text)
                /\ rpc' = "fallback"
                /\ UNCHANGED <<request, effective_agent_key, attempt, outcome>>
           ELSE IF is_quota_or_rate_limit_error(error_text)
           THEN CallEnds(RaisedQuota(effective_agent_key))
           ELSE /\ errors' = Append(errors, error_text)
                /\ rpc' = "retry"
                /\ UNCHANGED <<request, effective_agent_key, attempt, outcome>>
    /\ UNCHANGED <<config, checked_calls>>
    /\ OnlyChecked

\* The fallback run of gemini yields a valid output: the flag is set.
FallbackReturns ==
    /\ rpc = "fallback"
    /\ hist' = Ran("gemini", FALSE)
    /\ config' = [config EXCEPT !.claude_quota_reached = TRUE]
    /\ CallEnds(Returned("gemini"))
    /\ UNCHANGED checked_calls
    /\ OnlyChecked

\* What follows the fallback when it did not return: the check of the
\* primary agent's error_text (the last entry of errors before the fallback).
AfterFallback(error_text, appended) ==
    IF is_quota_or_rate_limit_error(error_text)
    THEN CallEnds(RaisedQuota("claude"))
    ELSE /\ errors' = Append(errors, appended)
         /\ rpc' = "retry"
         /\ UNCHANGED <<request, effective_agent_key, attempt, outcome>>

\* FallbackInvalid setting the sticky flag although the fallback's output
\* was rejected.
FallbackInvalid_SetsFlag ==
    /\ rpc = "fallback"
    /\ hist' = Ran("gemini", FALSE)
    /\ \E validation_error \in ValidationErrors :
          AfterFallback(errors[Len(errors)],
                        <<"gemini", "fallback", "invalid", "output:">> \o validation_error)
    /\ config' = [config EXCEPT !.claude_quota_reached = TRUE]
    /\ UNCHANGED checked_calls
    /\ OnlyChecked

\* The fallback run of gemini yields an output that fails the contract.
FallbackInvalid ==
    /\ rpc = "fallback"
    /\ hist' = Ran("gemini", FALSE)
    /\ \E validation_error \in ValidationErrors :
          AfterFallback(errors[Len(errors)],
                        <<"gemini", "fallback", "invalid", "output:">> \o validation_error)
    /\ UNCHANGED <<config, checked_calls>>
    /\ OnlyChecked

\* The fallback run of gemini raises.
FallbackRaises ==
    /\ rpc = "fallback"
    /\ \E fallback_error \in FailureTexts("gemini") :
        /\ hist' = Ran("gemini", is_quota_or_rate_limit_error(fallback_error))
        /\ IF is_quota_or_rate_limit_error(fallback_error)
           THEN /\ config' = [config EXCEPT !.claude_quota_reached = TRUE]
                /\ CallEnds(RaisedQuota("gemini"))
           ELSE /\ config' = config
                /\ AfterFallback(errors[Len(errors)],
                                 <<"gemini", "fallback", "failed:">> \o fallback_error)
    /\ UNCHANGED checked_calls
    /\ OnlyChecked

\* Backoff allowing one attempt more than max_retries + 1.
Backoff_OneMore ==
    /\ rpc = "retry"
    /\ attempt < request.max_retries + 2
    /\ hist' = [hist EXCEPT
           !.sleeps = @ + 1,
           !.delay = compute_retry_backoff_seconds(errors[Len(errors)], attempt),
           !.after = "sleep"]
    /\ attempt' = attempt + 1
    /\ rpc' = "try"
    /\ UNCHANGED <<config, request, effective_agent_key, errors, outcome, checked_calls>>
    /\ OnlyChecked

\* A failed attempt that has a next attempt: sleep, then the next attempt.
Backoff ==
    /\ rpc = "retry"
    /\ attempt < request.max_retries + 1
    /\ hist' = [hist EXCEPT
           !.sleeps = @ + 1,
           !.delay = compute_retry_backoff_seconds(errors[Len(errors)], attempt),
           !.after = "sleep"]
    /\ attempt' = attempt + 1
    /\ rpc' = "try"
    /\ UNCHANGED <<config, request, effective_agent_key, errors, outcome, checked_calls>>
    /\ OnlyChecked

\* The last attempt failed: the terminal RuntimeError.
GiveUp ==
    /\ rpc = "retry"
    /\ ~(attempt < request.max_retries + 1)
    /\ CallEnds(RaisedRuntimeError(effective_agent_key))
    /\ UNCHANGED <<config, hist, checked_calls>>
    /\ OnlyChecked

\* A run: the fallback switch is fixed when the config is built, the
\* sticky flag starts cleared.
InitChecked ==
    /\ PipelineIdle
    /\ StreamIdle
    /\ ParseIdle
    /\ ExtractIdle
    /\ HistoryIdle
    /\ PoisonIdle
    /\ LockIdle
    /\ PathsIdle
    /\ AtomicIdle
    /\ MarkersIdle
    /\ StripIdle
    /\ ContractIdle
    /\ \E allow \in BOOLEAN :
          config = [allow_fallback_to_gemini |-> allow, claude_quota_reached |-> FALSE]
    /\ rpc = "idle"
    /\ request = [agent_key |-> "none", max_retries |-> 0]
    /\ effective_agent_key = "none"
    /\ attempt = 0
    /\ errors = <<>>
    /\ outcome = NoOutcome
    /\ hist = NoHist
    /\ checked_calls = 0

NextChecked ==
    \/ StartCall
    \/ AttemptReturns
    \/ AttemptInvalid
    \/ AttemptRaises
    \/ FallbackReturns
    \/ FallbackInvalid
    \/ FallbackRaises
    \/ Backoff
    \/ GiveUp

SpecChecked == InitChecked /\ [][NextChecked]_vars


\* The step executes run_agent for `agent_key`.
RunStep(agent_key) ==
    /\ rpc \in {"try", "fallback"}
    /\ hist'.runs[agent_key] = hist.runs[agent_key] + 1

\* The step is the backoff sleep.
SleepStep == rpc = "retry" /\ hist'.sleeps = hist.sleeps + 1

\* The step ends the call.
CallEndStep == rpc # "idle" /\ rpc' = "idle"

\* C11: once an agent has failed with a quota-classified error in a call,
\* that agent is not run again in the call and the call does not sleep, for
\* every max_retries; the failure leads at once to the fallback run or to
\* the end of the call; the fallback agent is run at most once; and the
\* call ends by returning the fallback's output or with QuotaReachedError.
C11_QuotaNeverRetried ==
    [][ /\ \A a \in AgentNames : RunStep(a) => a \notin hist.quota_failed
        /\ SleepStep => hist.quota_failed = {}
        /\ hist'.quota_failed # hist.quota_failed /\ rpc # "idle" =>
              /\ rpc' \in {"fallback", "idle"}
              /\ hist'.sleeps = hist.sleeps
        /\ rpc = "fallback" => hist.runs["gemini"] = 0
        /\ CallEndStep /\ hist'.quota_failed # {} =>
              \/ outcome'.kind = "QuotaReachedError"
              \/ /\ outcome' = Returned("gemini")
                 /\ hist'.quota_failed = {"claude"}
                 /\ hist'.runs["gemini"] = 1
      ]_vars

\* C11 witness: codex failed once, was retried after a sleep, and then
\* failed with a quota error: the call ended at once with QuotaReachedError.
C11_Witness ==
    /\ rpc = "idle"
    /\ outcome = RaisedQuota("codex")
    /\ hist.quota_failed = {"codex"}
    /\ hist.runs["codex"] = 2
    /\ hist.sleeps = 1

\* C12: with the fallback enabled, a quota error of claude is followed at
\* once by a run of gemini with the same call; a valid output of that run
\* is returned and sets claude_quota_reached; the flag stays set; and while
\* it is set, a call addressed to claude is routed to gemini and no step
\* runs claude (or any agent but gemini for such a call).
C12_StickyFallback ==
    [][ /\ ( /\ rpc = "try"
             /\ effective_agent_key = "claude"
             /\ config.allow_fallback_to_gemini
             /\ "claude" \in hist'.quota_failed ) =>
                /\ rpc' = "fallback"
                /\ request' = request
        /\ rpc = "fallback" /\ rpc' # "fallback" => RunStep("gemini")
        /\ rpc = "fallback" /\ outcome'.kind = "returned" =>
                /\ outcome' = Returned("gemini")
                /\ config'.claude_quota_reached
        /\ config.claude_quota_reached => config'.claude_quota_reached
        /\ config.claude_quota_reached => ~RunStep("claude")
        /\ ( /\ config.claude_quota_reached
             /\ config.allow_fallback_to_gemini
             /\ rpc = "idle"
             /\ request'.agent_key = "claude" ) => effective_agent_key' = "gemini"
        /\ ( /\ config.claude_quota_reached
             /\ request.agent_key = "claude" ) =>
                \A a \in AgentNames : RunStep(a) => a = "gemini"
      ]_vars

\* C12 witness: the second call of the run is addressed to claude after
\* the flag was set, and its first attempt has gone to gemini.
C12_Witness ==
    /\ checked_calls = 2
    /\ config.claude_quota_reached
    /\ request.agent_key = "claude"
    /\ effective_agent_key = "gemini"
    /\ hist.runs = [a \in AgentNames |-> IF a = "gemini" THEN 1 ELSE 0]
    /\ rpc = "retry"

\* C13: a call runs its agent at most max_retries + 1 times; a sleep comes
\* only after a failed attempt that was not a quota failure, lasts the
\* computed backoff and is followed by the next attempt; a failed attempt
\* that has a next attempt is followed by the sleep, the last one by the
\* terminal RuntimeError; nothing is slept or run once the call has ended.
C13_BoundedRetries ==
    /\ [](rpc # "idle" =>
            /\ attempt >= 1 /\ attempt <= request.max_retries + 1
            /\ hist.sleeps = attempt - 1
            /\ hist.runs[effective_agent_key] = IF rpc = "try" THEN attempt - 1 ELSE attempt
            /\ hist.runs[effective_agent_key] <= request.max_retries + 1)
    /\ [][ /\ rpc = "try" => RunStep(effective_agent_key)
           /\ rpc = "try" /\ outcome'.kind = "returned" =>
                 /\ rpc' = "idle"
                 /\ outcome'.agent = effective_agent_key
                 /\ hist'.sleeps = hist.sleeps
           /\ rpc = "retry" =>
                 IF attempt < request.max_retries + 1
                 THEN /\ SleepStep
                      /\ hist.after = "run"
                      /\ hist.quota_failed = {}
                      /\ hist'.delay =
                            compute_retry_backoff_seconds(errors[Len(errors)], attempt)
                      /\ rpc' = "try"
                      /\ attempt' = attempt + 1
                 ELSE /\ outcome' = RaisedRuntimeError(effective_agent_key)
                      /\ rpc' = "idle"
                      /\ hist' = hist
           /\ rpc' = "idle" => hist'.sleeps = hist.sleeps
           /\ rpc = "idle" /\ rpc' = "idle" => hist' = hist
         ]_vars

\* C13 witness: every one of the MaxRetries + 1 attempts failed; the call
\* slept MaxRetries times and ended with the terminal error.
C13_Witness ==
    /\ rpc = "idle"
    /\ outcome = RaisedRuntimeError("codex")
    /\ hist.runs["codex"] = MaxRetries + 1
    /\ hist.sleeps = MaxRetries
    /\ hist.after = "run"

\* Attempt numbers the backoff is computed for.
MaxAttemptNumber == 8

Min(a, b) == IF a < b THEN a ELSE b

Max(a, b) == IF a > b THEN a ELSE b

\* C14: for every attempt number n >= 1 the backoff is min(30, 2 * 2^(n-1))
\* for a text that is not quota-classified and max(10, that) for one that
\* is; it does not decrease with n, is never above 30, and never below 10
\* for a quota-classified text; and the sleep of run_agent_checked lasts
\* that long.
C14_Backoff ==
    /\ [](\A n \in 1..MaxAttemptNumber :
          \A text \in FailureTexts("claude") \cup ValidationErrors :
            LET value == compute_retry_backoff_seconds(text, n)
                plain == Min(30, 2 * 2^(n - 1))
            IN  /\ ~is_quota_or_rate_limit_error(text) => value = plain
                /\ is_quota_or_rate_limit_error(text) =>
                      value = Max(10, plain) /\ value >= 10
                /\ value <= 30
                /\ value <= compute_retry_backoff_seconds(text, n + 1))
    /\ [][ SleepStep =>
              hist'.delay =
                 IF is_quota_or_rate_limit_error(errors[Len(errors)])
                 THEN Max(10, Min(30, 2 * 2^(attempt - 1)))
                 ELSE Min(30, 2 * 2^(attempt - 1))
         ]_vars

\* C14 witness: the first attempt was rejected with a text that is
\* quota-classified; the sleep before the second attempt lasted 10 seconds.
C14_Witness ==
    /\ rpc = "try"
    /\ attempt = 2
    /\ hist.after = "sleep"
    /\ is_quota_or_rate_limit_error(errors[1])
    /\ hist.delay = 10


(***************************************************************************)
(* agent_runtime.py: run_agent, with the agent process, the two            *)
(* read_stream threads and the queue between them and the main loop        *)
(***************************************************************************)

\* Lines the agent process writes to one channel.
MaxLines == 2

\* Calls of run_agent one after the other (attempts, fallback, next steps).
MaxStreamCalls == 2

\* The text of a channel on which the lines 1..n were written.
Lines(n) == [i \in 1..n |-> i]

StreamRaised(error) ==
    [kind |-> "raised", error |-> error, stdout |-> <<>>, stderr |-> <<>>]

\* The locals of the call are gone.
ResetStreamLocals ==
    /\ pending' = "none"
    /\ pipe' = [ch \in Channels |-> [written |-> 0, open |-> FALSE]]
    /\ reader' = [ch \in Channels |-> [pc |-> "unstarted", taken |-> 0]]
    /\ stream_queue' = <<>>
    /\ chunks' = [ch \in Channels |-> <<>>]
    /\ completed_channels' = {}
    /\ elapsed' = FALSE
    /\ logged' = FALSE

\* run_agent returns or raises.
StreamCallEnds(how) ==
    /\ result' = how
    /\ mpc' = "idle"
    /\ ResetStreamLocals

\* run_agent in a dry run: the simulated output, no process, no adapter call.
DryRun ==
    /\ mpc = "idle"
    /\ stream_calls < MaxStreamCalls
    /\ stream_config.dry_run
    /\ stream_calls' = stream_calls + 1
    /\ result' = [kind |-> "returned", error |-> "none", stdout |-> Lines(1), stderr |-> <<>>]
    /\ cleanups' = 0
    /\ UNCHANGED <<stream_config, mpc, pending, process, pipe, reader, stream_queue,
                   chunks, completed_channels, elapsed, logged>>
    /\ OnlyStream

\* run_agent, entry: the command is built and the mode is chosen.
CallRunAgent ==
    /\ mpc = "idle"
    /\ stream_calls < MaxStreamCalls
    /\ ~stream_config.dry_run
    /\ stream_calls' = stream_calls + 1
    /\ mpc' = IF stream_config.agent_live_stream THEN "popen" ELSE "run"
    /\ result' = NoResult
    /\ cleanups' = 0
    /\ UNCHANGED <<stream_config, pending, process, pipe, reader, stream_queue,
                   chunks, completed_channels, elapsed, logged>>
    /\ OnlyStream

\* subprocess.Popen starts the agent process.
PopenStarts ==
    /\ mpc = "popen"
    /\ \E stdin_blocks \in BOOLEAN :
          process' = [status |-> "running", returncode |-> -1,
                      stdin_blocks |-> stdin_blocks]
    /\ pipe' = [ch \in Channels |-> [written |-> 0, open |-> TRUE]]
    /\ mpc' = "stdin"
    /\ UNCHANGED <<stream_config, pending, reader, stream_queue, chunks,
                   completed_channels, elapsed, logged, cleanups, result, stream_calls>>
    /\ OnlyStream

\* subprocess.Popen raises (the binary is missing, ...).
PopenFails ==
    /\ mpc = "popen"
    /\ pending' = "OSError"
    /\ mpc' = "cleanup"
    /\ UNCHANGED <<stream_config, process, pipe, reader, stream_queue, chunks,
                   completed_channels, elapsed, logged, cleanups, result, stream_calls>>
    /\ OnlyStream

\* process.stdin.write(prompt) and close: it returns once the prompt is in
\* the pipe, raises BrokenPipeError when the process has exited, and blocks
\* while a running process does not take a prompt larger than the pipe.
\* Then the clock and the two reader threads are started.
StdinWrite ==
    /\ mpc = "stdin"
    /\ IF process.status # "running"
       THEN /\ pending' = "OSError"
            /\ mpc' = "cleanup"
            /\ reader' = reader
       ELSE /\ ~process.stdin_blocks
            /\ pending' = pending
            /\ mpc' = "loop"
            /\ reader' = [ch \in Channels |-> [pc |-> "readline", taken |-> 0]]
    /\ UNCHANGED <<stream_config, process, pipe, stream_queue, chunks,
                   completed_channels, elapsed, logged, cleanups, result, stream_calls>>
    /\ OnlyStream

\* Time passes: the timeout of the call is over.
Tick ==
    /\ mpc = "loop"
    /\ ~elapsed
    /\ elapsed' = TRUE
    /\ UNCHANGED <<stream_config, mpc, pending, process, pipe, reader, stream_queue,
                   chunks, completed_channels, logged, cleanups, result, stream_calls>>
    /\ OnlyStream

\* Main loop: the timeout check kills the process and raises TimeoutExpired.
LoopTimeout ==
    /\ mpc = "loop"
    /\ Cardinality(completed_channels) < 2
    /\ elapsed
    /\ process' = IF process.status = "running"
                  THEN [process EXCEPT !.status = "killed", !.returncode = -9]
                  ELSE process
    /\ pipe' = [ch \in Channels |-> [pipe[ch] EXCEPT !.open = FALSE]]
    /\ pending' = "TimeoutExpired"
    /\ mpc' = "cleanup"
    /\ UNCHANGED <<stream_config, reader, stream_queue, chunks, completed_channels,
                   elapsed, logged, cleanups, result, stream_calls>>
    /\ OnlyStream

\* LoopExit leaving the loop after the first sentinel.
LoopExit_FirstSentinel ==
    /\ mpc = "loop"
    /\ Cardinality(completed_channels) >= 1
    /\ mpc' = "wait"
    /\ UNCHANGED <<stream_config, pending, process, pipe, reader, stream_queue, chunks,
                   completed_channels, elapsed, logged, cleanups, result, stream_calls>>
    /\ OnlyStream

\* Main loop: both sentinels have been taken.
LoopExit ==
    /\ mpc = "loop"
    /\ Cardinality(completed_channels) = 2
    /\ mpc' = "wait"
    /\ UNCHANGED <<stream_config, pending, process, pipe, reader, stream_queue, chunks,
                   completed_channels, elapsed, logged, cleanups, result, stream_calls>>
    /\ OnlyStream

\* Main loop: an event is taken from the queue; a sentinel completes its
\* channel, a line is appended to the chunks of its channel and logged or
\* not (channel selection, stream mode, stream_filter).
LoopTake ==
    /\ mpc = "loop"
    /\ Cardinality(completed_channels) < 2
    /\ ~elapsed
    /\ stream_queue # <<>>
    /\ stream_queue' = Tail(stream_queue)
    /\ LET event == Head(stream_queue)
       IN  IF event.line = 0
           THEN /\ completed_channels' = completed_channels \cup {event.channel}
                /\ UNCHANGED <<chunks, logged>>
           ELSE /\ chunks' = [chunks EXCEPT ![event.channel] = Append(@, event.line)]
                /\ \E show \in BOOLEAN : logged' = show
                /\ UNCHANGED completed_channels
    /\ UNCHANGED <<stream_config, mpc, pending, process, pipe, reader, elapsed,
                   cleanups, result, stream_calls>>
    /\ OnlyStream

\* thread.join and process.wait(timeout=5): the process has exited.
WaitReturns ==
    /\ mpc = "wait"
    /\ process.status # "running"
    /\ mpc' = "cleanup"
    /\ UNCHANGED <<stream_config, pending, process, pipe, reader, stream_queue, chunks,
                   completed_channels, elapsed, logged, cleanups, result, stream_calls>>
    /\ OnlyStream

\* process.wait(timeout=5) raises TimeoutExpired: the process is still running.
WaitTimesOut ==
    /\ mpc = "wait"
    /\ process.status = "running"
    /\ pending' = "TimeoutExpired"
    /\ mpc' = "cleanup"
    /\ UNCHANGED <<stream_config, process, pipe, reader, stream_queue, chunks,
                   completed_channels, elapsed, logged, cleanups, result, stream_calls>>
    /\ OnlyStream

\* subprocess.run: the process runs to its end and its output is captured.
RunCompletes ==
    /\ mpc = "run"
    /\ \E returncode \in {0, 1}, out \in 0..MaxLines, err \in 0..MaxLines :
        /\ process' = [status |-> "exited", returncode |-> returncode,
                       stdin_blocks |-> FALSE]
        /\ pipe' = [ch \in Channels |->
                      [written |-> IF ch = "stdout" THEN out ELSE err, open |-> FALSE]]
        /\ chunks' = [ch \in Channels |-> Lines(IF ch = "stdout" THEN out ELSE err)]
    /\ mpc' = "cleanup"
    /\ UNCHANGED <<stream_config, pending, reader, stream_queue, completed_channels,
                   elapsed, logged, cleanups, result, stream_calls>>
    /\ OnlyStream

\* subprocess.run: the timeout is over; the process is killed and reaped.
RunTimesOut ==
    /\ mpc = "run"
    /\ process' = [status |-> "killed", returncode |-> -9, stdin_blocks |-> FALSE]
    /\ pending' = "TimeoutExpired"
    /\ mpc' = "cleanup"
    /\ UNCHANGED <<stream_config, pipe, reader, stream_queue, chunks, completed_channels,
                   elapsed, logged, cleanups, result, stream_calls>>
    /\ OnlyStream

\* subprocess.run raises before a process exists.
RunFails ==
    /\ mpc = "run"
    /\ pending' = "OSError"
    /\ mpc' = "cleanup"
    /\ UNCHANGED <<stream_config, process, pipe, reader, stream_queue, chunks,
                   completed_channels, elapsed, logged, cleanups, result, stream_calls>>
    /\ OnlyStream

\* Cleanup leaving the adapter's resources when an exception is pending.
Cleanup_OnlyOnSuccess ==
    /\ mpc = "cleanup"
    /\ cleanups' = IF pending = "none" THEN cleanups + 1 ELSE cleanups
    /\ IF pending = "TimeoutExpired"
       THEN StreamCallEnds(StreamRaised("timed out"))
       ELSE IF pending = "OSError"
       THEN StreamCallEnds(StreamRaised("OSError"))
       ELSE /\ mpc' = "result"
            /\ UNCHANGED <<pending, pipe, reader, stream_queue, chunks,
                           completed_channels, elapsed, logged, result>>
    /\ UNCHANGED <<stream_config, process, stream_calls>>
    /\ OnlyStream

\* The finally block: adapter.cleanup(), then the pending exception goes on
\* (TimeoutExpired as the RuntimeError "timed out").
Cleanup ==
    /\ mpc = "cleanup"
    /\ cleanups' = cleanups + 1
    /\ IF pending = "TimeoutExpired"
       THEN StreamCallEnds(StreamRaised("timed out"))
       ELSE IF pending = "OSError"
       THEN StreamCallEnds(StreamRaised("OSError"))
       ELSE /\ mpc' = "result"
            /\ UNCHANGED <<pending, pipe, reader, stream_queue, chunks,
                           completed_channels, elapsed, logged, result>>
    /\ UNCHANGED <<stream_config, process, stream_calls>>
    /\ OnlyStream

\* After the try: a non-zero exit code and an empty output raise, any other
\* output is returned.
CheckResult ==
    /\ mpc = "result"
    /\ IF process.returncode # 0
       THEN StreamCallEnds(StreamRaised("failed"))
       ELSE IF chunks["stdout"] = <<>>
       THEN StreamCallEnds(StreamRaised("empty output"))
       ELSE StreamCallEnds([kind |-> "returned", error |-> "none",
                            stdout |-> chunks["stdout"], stderr |-> chunks["stderr"]])
    /\ UNCHANGED <<stream_config, process, cleanups, stream_calls>>
    /\ OnlyStream

\* The agent process writes its next line to a channel.
ChildWrites(ch) ==
    /\ process.status = "running"
    /\ pipe[ch].open
    /\ pipe[ch].written < MaxLines
    /\ pipe' = [pipe EXCEPT ![ch].written = @ + 1]
    /\ UNCHANGED <<stream_config, mpc, pending, process, reader, stream_queue, chunks,
                   completed_channels, elapsed, logged, cleanups, result, stream_calls>>
    /\ OnlyStream

\* The agent process closes a channel and goes on running.
ChildCloses(ch) ==
    /\ process.status = "running"
    /\ pipe[ch].open
    /\ pipe' = [pipe EXCEPT ![ch].open = FALSE]
    /\ UNCHANGED <<stream_config, mpc, pending, process, reader, stream_queue, chunks,
                   completed_channels, elapsed, logged, cleanups, result, stream_calls>>
    /\ OnlyStream

\* The agent process exits; its channels are closed.
ChildExits ==
    /\ process.status = "running"
    /\ \E returncode \in {0, 1} :
          process' = [process EXCEPT !.status = "exited", !.returncode = returncode]
    /\ pipe' = [ch \in Channels |-> [pipe[ch] EXCEPT !.open = FALSE]]
    /\ UNCHANGED <<stream_config, mpc, pending, reader, stream_queue, chunks,
                   completed_channels, elapsed, logged, cleanups, result, stream_calls>>
    /\ OnlyStream

\* read_stream: readline returns the next line and it is put on the queue
\* (both touch only the thread's own line and the queue: one step).
ReaderLine(ch) ==
    /\ reader[ch].pc = "readline"
    /\ reader[ch].taken < pipe[ch].written
    /\ reader' = [reader EXCEPT ![ch].taken = @ + 1]
    /\ stream_queue' = Append(stream_queue, [channel |-> ch, line |-> reader[ch].taken + 1])
    /\ UNCHANGED <<stream_config, mpc, pending, process, pipe, chunks,
                   completed_channels, elapsed, logged, cleanups, result, stream_calls>>
    /\ OnlyStream

\* read_stream: readline returns "" at the end of the channel; the sentinel
\* is put on the queue and the thread ends.
ReaderEof(ch) ==
    /\ reader[ch].pc = "readline"
    /\ reader[ch].taken = pipe[ch].written
    /\ ~pipe[ch].open
    /\ reader' = [reader EXCEPT ![ch].pc = "done"]
    /\ stream_queue' = Append(stream_queue, [channel |-> ch, line |-> 0])
    /\ UNCHANGED <<stream_config, mpc, pending, process, pipe, chunks,
                   completed_channels, elapsed, logged, cleanups, result, stream_calls>>
    /\ OnlyStream

\* A run: the mode is fixed when the config is built.
InitStream ==
    /\ PipelineIdle
    /\ CheckedIdle
    /\ ParseIdle
    /\ ExtractIdle
    /\ HistoryIdle
    /\ PoisonIdle
    /\ LockIdle
    /\ PathsIdle
    /\ AtomicIdle
    /\ MarkersIdle
    /\ StripIdle
    /\ ContractIdle
    /\ stream_config \in {[dry_run |-> TRUE, agent_live_stream |-> FALSE],
                          [dry_run |-> FALSE, agent_live_stream |-> FALSE],
                          [dry_run |-> FALSE, agent_live_stream |-> TRUE]}
    /\ mpc = "idle"
    /\ process = NoProcess
    /\ NoStreamLocals
    /\ cleanups = 0
    /\ result = NoResult
    /\ stream_calls = 0

\* The steps of run_agent's own thread.
MainStep ==
    \/ DryRun
    \/ CallRunAgent
    \/ PopenStarts
    \/ PopenFails
    \/ StdinWrite
    \/ LoopTimeout
    \/ LoopTake
    \/ LoopExit
    \/ WaitReturns
    \/ WaitTimesOut
    \/ RunCompletes
    \/ RunTimesOut
    \/ RunFails
    \/ Cleanup
    \/ CheckResult

NextStream ==
    \/ MainStep
    \/ Tick
    \/ \E ch \in Channels : ChildWrites(ch)
    \/ \E ch \in Channels : ChildCloses(ch)
    \/ ChildExits
    \/ \E ch \in Channels : ReaderLine(ch)
    \/ \E ch \in Channels : ReaderEof(ch)

SpecStream == InitStream /\ [][NextStream]_vars


\* The fair runs of run_agent: its own thread, the clock and the reader
\* threads go on while they can; nothing is assumed about the agent process.
SpecStreamFair ==
    /\ SpecStream
    /\ WF_vars(MainStep)
    /\ WF_vars(Tick)
    /\ \A ch \in Channels : WF_vars(ReaderLine(ch)) /\ WF_vars(ReaderEof(ch))

\* A step in which run_agent returns or raises, a dry run excepted.
StreamCallEndStep == mpc # "idle" /\ mpc' = "idle"

\* A step that starts an agent process (Popen, or subprocess.run's own).
SpawnStep ==
    \/ mpc = "popen" /\ mpc' = "stdin"
    \/ mpc = "run" /\ pending' # "OSError"

\* C15: every run_agent call that is not a dry run, streaming or not, has
\* invoked adapter.cleanup() when it returns or raises: on a normal return,
\* a non-zero exit, empty output, a timeout, a failure to spawn the process
\* or to write its stdin.
C15_CleanupOnEveryExit ==
    [][StreamCallEndStep => cleanups' >= 1 /\ result'.kind # "none"]_vars

\* A streaming call has ended through the timeout, cleaned up.
C15_Witness ==
    /\ stream_config.agent_live_stream
    /\ mpc = "idle"
    /\ result.kind = "raised"
    /\ result.error = "timed out"
    /\ cleanups = 1

\* C16: a new agent process is started only when the previous agent process
\* has exited or been killed, also after a streaming call that ended through
\* the timeout or whose child closed both channels without exiting.
C16_OneProcessAlive ==
    [][SpawnStep => process.status # "running"]_vars

\* C17: a streaming-mode run_agent call never blocks forever: every call
\* that has started returns or raises, whatever the agent process does.
C17_StreamingCallEnds ==
    (mpc # "idle") ~> (mpc = "idle")

\* The events of a channel that are in the queue.
QueuedOf(ch) == SelectSeq(stream_queue, LAMBDA event : event.channel = ch)

\* The sentinels of a channel that are in the queue or taken.
Sentinels(ch) ==
    Len(SelectSeq(QueuedOf(ch), LAMBDA event : event.line = 0))
    + (IF ch \in completed_channels THEN 1 ELSE 0)

\* The StreamResult has been built: the call goes on to return normally or
\* to raise for the exit code or the empty output.
StreamResultBuilt ==
    /\ stream_config.agent_live_stream
    /\ mpc \in {"cleanup", "result"}
    /\ pending = "none"

MaxOutputLines == 5

\* The labels of DELIMITED_SECTION_PATTERN that occur in the outputs.
Labels == {"A", "B"}

BeginLine(label) == IF label = "A" THEN "<<<A_BEGIN>>>" ELSE "<<<B_BEGIN>>>"

EndLine(label) == IF label = "A" THEN "<<<A_END>>>" ELSE "<<<B_END>>>"

\* The lines an agent output is made of: the delimiters, each on a line of
\* its own, the approval flag, the completion marker, a line that is nearly
\* the completion marker, and the blank line.
OutputLines ==
    {BeginLine(label) : label \in Labels} \cup {EndLine(label) : label \in Labels}
    \cup {"CODEX_APPROVAL: YES", "CODEX_APPROVAL: NO", "STATUS: DONE",
          "status: done", ""}

\* DELIMITED_SECTION_PATTERN.sub("", text) from line i on: the leftmost
\* match starts at the first BEGIN line that has an END line of its label
\* behind it and ends, not greedy, at the first such END line; what is left
\* of the two delimiter lines is one blank line; the scan goes on behind
\* the match.
RECURSIVE StripFrom(_, _)
StripFrom(text, i) ==
    IF i > Len(text)
    THEN <<>>
    ELSE IF \E label \in Labels :
               /\ text[i] = BeginLine(label)
               /\ \E j \in (i + 1)..Len(text) : text[j] = EndLine(label)
         THEN LET label == CHOOSE l \in Labels : text[i] = BeginLine(l)
                  ends == {j \in (i + 1)..Len(text) : text[j] = EndLine(label)}
                  first == CHOOSE j \in ends : \A k \in ends : j <= k
              IN  <<"">> \o StripFrom(text, first + 1)
         ELSE <<text[i]>> \o StripFrom(text, i + 1)

strip_delimited_sections(text) == StripFrom(text, 1)

\* validate_done_marker looking for the marker on any line.
validate_done_marker_lines_AnyLine(text) ==
    \E i \in 1..Len(strip_delimited_sections(text)) :
        strip_delimited_sections(text)[i] = "STATUS: DONE"

\* validate_done_marker on lines.
validate_done_marker_lines(text) ==
    LET lines == SelectSeq(strip_delimited_sections(text), LAMBDA line : line # "")
    IN  IF lines = <<>> THEN FALSE ELSE lines[Len(lines)] = "STATUS: DONE"

\* parse_flag(text, "CODEX_APPROVAL") on lines: the last flag line of the
\* stripped text, "NONE" (None) without one.
parse_flag_lines(text) ==
    LET matches == SelectSeq(strip_delimited_sections(text),
                     LAMBDA line : line \in {"CODEX_APPROVAL: YES", "CODEX_APPROVAL: NO"})
    IN  IF matches = <<>> THEN "NONE"
        ELSE IF matches[Len(matches)] = "CODEX_APPROVAL: YES" THEN "YES" ELSE "NO"

\* validate_output_contract on lines, for a call that requires the flag or not and
\* whose output_validator, if the output gets that far, answers
\* validation_error ("none": no validator, or no error).
validate_output_contract_lines(text, flag_required, validation_error) ==
    IF ~validate_done_marker_lines(text)
    THEN "missing required final completion marker 'STATUS: DONE'"
    ELSE IF flag_required /\ parse_flag_lines(text) = "NONE"
    THEN "missing required flags"
    ELSE validation_error

\* The agent writes the next line of its output.
AgentEmits ==
    /\ vpc = "idle"
    /\ Len(output) < MaxOutputLines
    /\ \E line \in OutputLines : output' = Append(output, line)
    /\ UNCHANGED <<vpc, verdict>>
    /\ OnlyParse

\* run_agent_checked validates the output it got from run_agent; the caller
\* reads the approval flag from an accepted output.
Validate ==
    /\ vpc = "idle"
    /\ \E flag_required \in BOOLEAN, validation_error \in {"none", "rejected by output_validator"} :
          verdict' = [error |-> validate_output_contract_lines(output, flag_required, validation_error),
                      approval |-> parse_flag_lines(output)]
    /\ vpc' = "validated"
    /\ UNCHANGED output
    /\ OnlyParse

InitParse ==
    /\ PipelineIdle
    /\ CheckedIdle
    /\ StreamIdle
    /\ ParseIdle
    /\ ExtractIdle
    /\ HistoryIdle
    /\ PoisonIdle
    /\ LockIdle
    /\ PathsIdle
    /\ AtomicIdle
    /\ MarkersIdle
    /\ StripIdle
    /\ ContractIdle

NextParse ==
    \/ AgentEmits
    \/ Validate

SpecParse == InitParse /\ [][NextParse]_vars

\* Line k lies inside a block: behind a BEGIN line and before the first END
\* line of the same label that follows that BEGIN line.
InsideBlock(text, k) ==
    \E label \in Labels : \E i \in 1..(k - 1) : \E j \in (k + 1)..Len(text) :
        /\ text[i] = BeginLine(label)
        /\ text[j] = EndLine(label)
        /\ \A m \in (i + 1)..(j - 1) : text[m] # EndLine(label)

\* C19: a line inside a block with the same label on both ends has no
\* influence on the completion check or on the extracted approval flag: the
\* output with that line replaced by any line that is not a delimiter gets
\* the same results.
C19_BlocksCannotForge ==
    \A k \in 1..Len(output) :
        (InsideBlock(output, k) /\ output[k] \in {"CODEX_APPROVAL: YES", "STATUS: DONE"})
        => \A line \in {"", "status: done"} :
              LET other == [output EXCEPT ![k] = line]
              IN  /\ parse_flag_lines(other) = parse_flag_lines(output)
                  /\ validate_done_marker_lines(other) = validate_done_marker_lines(output)

\* The last line that is left of a text without its echoed blocks and its
\* blank lines, "" if none is left.
LastLine(text) ==
    LET kept == {i \in 1..Len(strip_delimited_sections(text)) :
                    strip_delimited_sections(text)[i] # ""}
    IN  IF kept = {} THEN ""
        ELSE strip_delimited_sections(text)[CHOOSE i \in kept : \A k \in kept : k <= i]

\* C20: run_agent_checked accepts an output only if its last line, echoed
\* blocks and blank lines removed, is exactly STATUS: DONE; any other
\* output is rejected for the missing marker, whatever its approval flag
\* and whatever the other checks would say.
C20_CompletionMarker ==
    vpc = "validated" =>
        /\ verdict.error = "none" => LastLine(output) = "STATUS: DONE"
        /\ LastLine(output) # "STATUS: DONE"
              => verdict.error = "missing required final completion marker 'STATUS: DONE'"

\* Rejected: STATUS: DONE only inside an echoed block, with a genuine
\* approval flag behind it.
C20_Witness ==
    /\ vpc = "validated"
    /\ output = <<"<<<A_BEGIN>>>", "STATUS: DONE", "<<<A_END>>>", "CODEX_APPROVAL: YES">>
    /\ verdict.error = "missing required final completion marker 'STATUS: DONE'"
    /\ verdict.approval = "YES"


(***************************************************************************)
(* state_io.py: sanitize_phase_findings, and orchestrator.py:              *)
(* validate_agent_contract with the findings bookkeeping of the reviewer   *)
(* steps of run_phase1 and run_phase2                                      *)
(***************************************************************************)

\* Ids in OPEN_FINDINGS and in a stored open_findings list.
MaxOpenFindings == 2

\* The ids that occur: two well-formed ones, one in lower case and one with
\* two digits only.
RawIds == {"F-001", "F-002", "f-001", "F-01"}

\* The characters of an id.
IdChars(id) ==
    IF id = "F-001" THEN <<"F", "-", "0", "0", "1">>
    ELSE IF id = "F-002" THEN <<"F", "-", "0", "0", "2">>
    ELSE IF id = "f-001" THEN <<"f", "-", "0", "0", "1">>
    ELSE <<"F", "-", "0", "1">>

\* str.upper()
upper(id) ==
    CHOOSE up \in RawIds :
        /\ Len(IdChars(up)) = Len(IdChars(id))
        /\ \A i \in 1..Len(IdChars(id)) :
              IdChars(up)[i] = (IF IdChars(id)[i] = "f" THEN "F" ELSE IdChars(id)[i])

\* FINDING_ID_PATTERN.match: ^F-\d{3}$
FINDING_ID_PATTERN(id) ==
    /\ Len(IdChars(id)) = 5
    /\ IdChars(id)[1] = "F"
    /\ IdChars(id)[2] = "-"
    /\ \A i \in 3..5 : IdChars(id)[i] \in {"0", "1", "2", "3", "4", "5", "6", "7", "8", "9"}

\* The ids as the parse functions return them (upper case).
ParsedIds == {upper(id) : id \in RawIds}

Elements(seq) == {seq[i] : i \in 1..Len(seq)}

SeqsUpTo(S, n) == UNION {[1..k -> S] : k \in 0..n}

\* ensure_state_shape.sanitize_phase_findings: the ids are put in upper
\* case; those failing the pattern are dropped, the others keep their order.
sanitize_phase_findings(phase_state) ==
    [open_findings |->
        SelectSeq([i \in 1..Len(phase_state.open_findings) |->
                       upper(phase_state.open_findings[i])],
                  FINDING_ID_PATTERN),
     finding_history |->
        {upper(fid) : fid \in {f \in phase_state.finding_history :
                                   FINDING_ID_PATTERN(upper(f))}}]

\* A reviewer response as the parse functions read it: parse_flag,
\* parse_open_findings (has_open_findings FALSE: None), the keys of
\* parse_finding_status_map and of parse_new_findings.
Responses ==
    [approval : {"YES", "NO", "NONE"},
     has_open_findings : {TRUE},
     open_findings : SeqsUpTo(ParsedIds, MaxOpenFindings),
     status_map : SUBSET ParsedIds,
     new_findings : SUBSET ParsedIds]
    \cup
    [approval : {"YES", "NO", "NONE"},
     has_open_findings : {FALSE},
     open_findings : {<<>>},
     status_map : SUBSET ParsedIds,
     new_findings : SUBSET ParsedIds]

\* validate_agent_contract asking a definition for every open id.
validate_agent_contract_findings_AllDefined(r, previous) ==
    IF r.approval \notin {"YES", "NO"}
    THEN "missing or invalid approval marker"
    ELSE IF ~r.has_open_findings
    THEN "missing OPEN_FINDINGS marker"
    ELSE IF \E fid \in Elements(r.open_findings) : ~FINDING_ID_PATTERN(fid)
    THEN "invalid finding id"
    ELSE IF Len(r.open_findings) # Cardinality(Elements(r.open_findings))
    THEN "OPEN_FINDINGS contains duplicate finding ids"
    ELSE IF r.approval = "YES" /\ r.open_findings # <<>>
    THEN "YES is only allowed when OPEN_FINDINGS: NONE"
    ELSE IF r.approval = "NO" /\ r.open_findings = <<>>
    THEN "NO requires at least one open finding"
    ELSE IF \E fid \in r.status_map : ~FINDING_ID_PATTERN(fid)
    THEN "invalid finding id in FINDING_STATUS"
    ELSE IF \E fid \in Elements(previous) : fid \notin r.status_map
    THEN "missing FINDING_STATUS line for previous open finding"
    ELSE IF \E fid \in r.new_findings : ~FINDING_ID_PATTERN(fid)
    THEN "invalid finding id in NEW_FINDING"
    ELSE IF \E fid \in Elements(r.open_findings) : fid \notin r.new_findings
    THEN "new open finding requires NEW_FINDING"
    ELSE "none"

\* validate_agent_contract not asking for the status lines.
validate_agent_contract_findings_NoStatus(r, previous) ==
    IF r.approval \notin {"YES", "NO"}
    THEN "missing or invalid approval marker"
    ELSE IF ~r.has_open_findings
    THEN "missing OPEN_FINDINGS marker"
    ELSE IF \E fid \in Elements(r.open_findings) : ~FINDING_ID_PATTERN(fid)
    THEN "invalid finding id"
    ELSE IF Len(r.open_findings) # Cardinality(Elements(r.open_findings))
    THEN "OPEN_FINDINGS contains duplicate finding ids"
    ELSE IF r.approval = "YES" /\ r.open_findings # <<>>
    THEN "YES is only allowed when OPEN_FINDINGS: NONE"
    ELSE IF r.approval = "NO" /\ r.open_findings = <<>>
    THEN "NO requires at least one open finding"
    ELSE IF \E fid \in r.status_map : ~FINDING_ID_PATTERN(fid)
    THEN "invalid finding id in FINDING_STATUS"
    ELSE IF \E fid \in r.new_findings : ~FINDING_ID_PATTERN(fid)
    THEN "invalid finding id in NEW_FINDING"
    ELSE IF \E fid \in Elements(r.open_findings) :
               fid \notin Elements(previous) /\ fid \notin r.new_findings
    THEN "new open finding requires NEW_FINDING"
    ELSE "none"

\* validate_agent_contract accepting YES with open findings.
validate_agent_contract_findings_YesAnyway(r, previous) ==
    IF r.approval \notin {"YES", "NO"}
    THEN "missing or invalid approval marker"
    ELSE IF ~r.has_open_findings
    THEN "missing OPEN_FINDINGS marker"
    ELSE IF \E fid \in Elements(r.open_findings) : ~FINDING_ID_PATTERN(fid)
    THEN "invalid finding id"
    ELSE IF Len(r.open_findings) # Cardinality(Elements(r.open_findings))
    THEN "OPEN_FINDINGS contains duplicate finding ids"
    ELSE IF r.approval = "NO" /\ r.open_findings = <<>>
    THEN "NO requires at least one open finding"
    ELSE IF \E fid \in r.status_map : ~FINDING_ID_PATTERN(fid)
    THEN "invalid finding id in FINDING_STATUS"
    ELSE IF \E fid \in Elements(previous) : fid \notin r.status_map
    THEN "missing FINDING_STATUS line for previous open finding"
    ELSE IF \E fid \in r.new_findings : ~FINDING_ID_PATTERN(fid)
    THEN "invalid finding id in NEW_FINDING"
    ELSE IF \E fid \in Elements(r.open_findings) :
               fid \notin Elements(previous) /\ fid \notin r.new_findings
    THEN "new open finding requires NEW_FINDING"
    ELSE "none"

\* validate_agent_contract not looking for duplicate ids.
validate_agent_contract_findings_Duplicates(r, previous) ==
    IF r.approval \notin {"YES", "NO"}
    THEN "missing or invalid approval marker"
    ELSE IF ~r.has_open_findings
    THEN "missing OPEN_FINDINGS marker"
    ELSE IF \E fid \in Elements(r.open_findings) : ~FINDING_ID_PATTERN(fid)
    THEN "invalid finding id"
    ELSE IF r.approval = "YES" /\ r.open_findings # <<>>
    THEN "YES is only allowed when OPEN_FINDINGS: NONE"
    ELSE IF r.approval = "NO" /\ r.open_findings = <<>>
    THEN "NO requires at least one open finding"
    ELSE IF \E fid \in r.status_map : ~FINDING_ID_PATTERN(fid)
    THEN "invalid finding id in FINDING_STATUS"
    ELSE IF \E fid \in Elements(previous) : fid \notin r.status_map
    THEN "missing FINDING_STATUS line for previous open finding"
    ELSE IF \E fid \in r.new_findings : ~FINDING_ID_PATTERN(fid)
    THEN "invalid finding id in NEW_FINDING"
    ELSE IF \E fid \in Elements(r.open_findings) :
               fid \notin Elements(previous) /\ fid \notin r.new_findings
    THEN "new open finding requires NEW_FINDING"
    ELSE "none"

\* validate_agent_contract(output, previous_open_findings, approval_key):
\* the error, "none" for (None, open_findings).
validate_agent_contract_findings(r, previous) ==
    IF r.approval \notin {"YES", "NO"}
    THEN "missing or invalid approval marker"
    ELSE IF ~r.has_open_findings
    THEN "missing OPEN_FINDINGS marker"
    ELSE IF \E fid \in Elements(r.open_findings) : ~FINDING_ID_PATTERN(fid)
    THEN "invalid finding id"
    ELSE IF Len(r.open_findings) # Cardinality(Elements(r.open_findings))
    THEN "OPEN_FINDINGS contains duplicate finding ids"
    ELSE IF r.approval = "YES" /\ r.open_findings # <<>>
    THEN "YES is only allowed when OPEN_FINDINGS: NONE"
    ELSE IF r.approval = "NO" /\ r.open_findings = <<>>
    THEN "NO requires at least one open finding"
    ELSE IF \E fid \in r.status_map : ~FINDING_ID_PATTERN(fid)
    THEN "invalid finding id in FINDING_STATUS"
    ELSE IF \E fid \in Elements(previous) : fid \notin r.status_map
    THEN "missing FINDING_STATUS line for previous open finding"
    ELSE IF \E fid \in r.new_findings : ~FINDING_ID_PATTERN(fid)
    THEN "invalid finding id in NEW_FINDING"
    ELSE IF \E fid \in Elements(r.open_findings) :
               fid \notin Elements(previous) /\ fid \notin r.new_findings
    THEN "new open finding requires NEW_FINDING"
    ELSE "none"

\* previous_open_findings of a cycle: the stored ids in upper case.
PreviousOpenFindings(phase_state) ==
    [i \in 1..Len(phase_state.open_findings) |-> upper(phase_state.open_findings[i])]

\* run_pipeline on resume: ensure_state_shape sanitizes the loaded findings.
EnsureShape ==
    /\ cpc = "idle"
    /\ findings' = sanitize_phase_findings(loaded_findings)
    /\ cpc' = "shaped"
    /\ UNCHANGED <<loaded_findings, review, previous_open_findings>>
    /\ OnlyContract

\* The reviewer step of a cycle: previous_open_findings is taken from the
\* state, the reviewer answers, run_agent_checked returns the response only
\* if the contract accepts it, and its open findings and history entries
\* are stored; a rejected response is not returned and nothing is stored.
ReviewerStep ==
    /\ cpc = "ready"
    /\ previous_open_findings' = PreviousOpenFindings(findings)
    /\ \E r \in Responses :
        LET error == validate_agent_contract_findings(r, previous_open_findings')
        IN  /\ review' = [approval |-> r.approval, open_findings |-> r.open_findings,
                          has_open_findings |-> r.has_open_findings,
                          status_map |-> r.status_map, new_findings |-> r.new_findings,
                          error |-> error]
            /\ findings' =
                 IF error = "none"
                 THEN [open_findings |-> r.open_findings,
                       finding_history |->
                           findings.finding_history \cup r.status_map \cup r.new_findings]
                 ELSE findings
    /\ cpc' = "reviewed"
    /\ UNCHANGED loaded_findings
    /\ OnlyContract

\* The first cycle after the state has been loaded, the next cycle, or the
\* next attempt after a rejected response.
NextCycle ==
    /\ cpc \in {"shaped", "reviewed"}
    /\ review' = NoReview
    /\ previous_open_findings' = <<>>
    /\ loaded_findings' = NoFindings
    /\ cpc' = "ready"
    /\ UNCHANGED findings
    /\ OnlyContract

\* A resume over a state file whose findings hold any ids.
InitContract ==
    /\ PipelineIdle
    /\ CheckedIdle
    /\ StreamIdle
    /\ ParseIdle
    /\ ExtractIdle
    /\ HistoryIdle
    /\ PoisonIdle
    /\ LockIdle
    /\ PathsIdle
    /\ AtomicIdle
    /\ MarkersIdle
    /\ StripIdle
    /\ loaded_findings \in [open_findings : SeqsUpTo(RawIds, MaxOpenFindings),
                            finding_history : SUBSET RawIds]
    /\ findings = NoFindings
    /\ review = NoReview
    /\ previous_open_findings = <<>>
    /\ cpc = "idle"

NextContract ==
    \/ EnsureShape
    \/ ReviewerStep
    \/ NextCycle

SpecContract == InitContract /\ [][NextContract]_vars


\* The reviewer step has been made on the response in review.
Reviewed == cpc = "reviewed"

Rejected == review.error # "none"

\* The ids that are F- followed by exactly three digits.
WellFormedIds == {"F-001", "F-002"}

\* C21 as stated: YES with a non-empty open-findings list is rejected, NO
\* with an empty list is rejected, and YES with OPEN_FINDINGS: NONE and a
\* status line for every previously open id is accepted with the empty list.
C21_ApprovalFindingsConsistency ==
    Reviewed =>
        /\ (review.approval = "YES" /\ review.open_findings # <<>>) => Rejected
        /\ (review.approval = "NO" /\ review.has_open_findings /\ review.open_findings = <<>>)
              => Rejected
        /\ ( /\ review.approval = "YES"
             /\ review.has_open_findings
             /\ review.open_findings = <<>>
             /\ Elements(previous_open_findings) \subseteq review.status_map )
              => ~Rejected /\ findings.open_findings = <<>>

\* C21, amended: the response that is accepted is one whose status and
\* new-finding lines carry well-formed ids only.
C21_ApprovalFindingsConsistencyWellFormed ==
    Reviewed =>
        /\ (review.approval = "YES" /\ review.open_findings # <<>>) => Rejected
        /\ (review.approval = "NO" /\ review.has_open_findings /\ review.open_findings = <<>>)
              => Rejected
        /\ ( /\ review.approval = "YES"
             /\ review.has_open_findings
             /\ review.open_findings = <<>>
             /\ Elements(previous_open_findings) \subseteq review.status_map
             /\ review.status_map \cup review.new_findings \subseteq WellFormedIds )
              => ~Rejected /\ findings.open_findings = <<>>

\* YES with a well-formed open finding has been rejected for that reason.
C21_Witness ==
    /\ Reviewed
    /\ review.approval = "YES"
    /\ review.open_findings = <<"F-001">>
    /\ review.error = "YES is only allowed when OPEN_FINDINGS: NONE"

\* C22: a response without a status line for some previously open id is
\* rejected; so a previously open id is missing from the stored open
\* findings only after an accepted response with a status line for it.
C22_NoFindingDropped ==
    Reviewed =>
        /\ (\E fid \in Elements(previous_open_findings) : fid \notin review.status_map)
              => Rejected
        /\ \A fid \in Elements(previous_open_findings) :
              fid \notin Elements(findings.open_findings)
                 => ~Rejected /\ fid \in review.status_map

\* A response that closes the open finding F-001 by leaving out its status
\* line has been rejected, and the finding is still open.
C22_Witness ==
    /\ Reviewed
    /\ previous_open_findings = <<"F-001">>
    /\ review.approval = "YES"
    /\ review.has_open_findings
    /\ review.open_findings = <<>>
    /\ review.status_map = {}
    /\ review.error = "missing FINDING_STATUS line for previous open finding"
    /\ findings.open_findings = <<"F-001">>

\* C23: a response listing as open an id that was not open before and has
\* no NEW_FINDING line is rejected, and a definition is asked for such ids
\* only: ids carried over from previous_open_findings need none.
C23_NewFindingsDefined ==
    Reviewed =>
        /\ (\E fid \in Elements(review.open_findings) :
               fid \notin Elements(previous_open_findings) /\ fid \notin review.new_findings)
              => Rejected
        /\ review.error = "new open finding requires NEW_FINDING"
              => \E fid \in Elements(review.open_findings) :
                    fid \notin Elements(previous_open_findings)
                       /\ fid \notin review.new_findings

\* Accepted: F-001 carried over without a definition, F-002 new with one.
C23_Witness ==
    /\ Reviewed
    /\ previous_open_findings = <<"F-001">>
    /\ review.open_findings = <<"F-001", "F-002">>
    /\ review.new_findings = {"F-002"}
    /\ ~Rejected
    /\ findings.open_findings = <<"F-001", "F-002">>

MaxFragments == 5

\* The pieces a text is made of: the two halves of <<<A_BEGIN>>>, the other
\* delimiters in one piece, and other text.
Fragments == {"<<<A_", "BEGIN>>>", "<<<A_END>>>", "<<<B_BEGIN>>>", "<<<B_END>>>", "x"}

\* The label of the BEGIN delimiter that starts at fragment i of t, "none"
\* if none starts there: <<<A_ directly followed by BEGIN>>> reads
\* <<<A_BEGIN>>>.
BeginLabelAt(t, i) ==
    IF t[i] = "<<<B_BEGIN>>>" THEN "B"
    ELSE IF t[i] = "<<<A_" /\ i < Len(t) /\ t[i + 1] = "BEGIN>>>" THEN "A"
    ELSE "none"

\* The number of fragments that delimiter takes.
BeginWidth(t, i) == IF t[i] = "<<<B_BEGIN>>>" THEN 1 ELSE 2

\* The END delimiters of the label of the BEGIN delimiter at i behind it.
EndsBehind(t, i) ==
    {j \in (i + BeginWidth(t, i))..Len(t) : t[j] = EndLine(BeginLabelAt(t, i))}

\* DELIMITED_SECTION_PATTERN.sub("", t) from fragment i on: one pass from
\* left to right; a match is removed and the scan goes on behind it.
RECURSIVE StripFragmentsFrom(_, _)
StripFragmentsFrom(t, i) ==
    IF i > Len(t)
    THEN <<>>
    ELSE IF BeginLabelAt(t, i) # "none" /\ EndsBehind(t, i) # {}
    THEN StripFragmentsFrom(t,
             (CHOOSE j \in EndsBehind(t, i) : \A k \in EndsBehind(t, i) : j <= k) + 1)
    ELSE <<t[i]>> \o StripFragmentsFrom(t, i + 1)

\* strip_delimited_sections on a text in fragments.
strip_delimited_sections_fragments(t) == StripFragmentsFrom(t, 1)

\* The text gets its next fragment.
WriteFragment ==
    /\ spc = "idle"
    /\ Len(fragments) < MaxFragments
    /\ \E fragment \in Fragments : fragments' = Append(fragments, fragment)
    /\ UNCHANGED <<spc, once, twice>>
    /\ OnlyStrip

\* strip_delimited_sections is applied to the text, and to its own result.
StripTwice ==
    /\ spc = "idle"
    /\ once' = strip_delimited_sections_fragments(fragments)
    /\ twice' = strip_delimited_sections_fragments(
                    strip_delimited_sections_fragments(fragments))
    /\ spc' = "stripped"
    /\ UNCHANGED fragments
    /\ OnlyStrip

InitStrip ==
    /\ PipelineIdle
    /\ CheckedIdle
    /\ StreamIdle
    /\ ParseIdle
    /\ ExtractIdle
    /\ HistoryIdle
    /\ PoisonIdle
    /\ LockIdle
    /\ PathsIdle
    /\ AtomicIdle
    /\ MarkersIdle
    /\ ContractIdle
    /\ StripIdle

NextStrip ==
    \/ WriteFragment
    \/ StripTwice

SpecStrip == InitStrip /\ [][NextStrip]_vars

\* C24: stripping is idempotent, and after one pass the text holds no
\* complete block with the same label on both ends.
C24_StripIdempotent ==
    spc = "stripped" =>
        /\ twice = once
        /\ \A i \in 1..Len(once) :
              BeginLabelAt(once, i) = "none" \/ EndsBehind(once, i) = {}

\* ---------------------------------------------------------------------------
\* Marker extraction: parse_flag and parse_open_findings on the raw text.
\* The text is a sequence of lines, a line a sequence of words; white space
\* and line breaks are what the patterns' \s* runs over.
\* ---------------------------------------------------------------------------

MaxMarkerLines == 3

\* The lines of a reviewer's answer: the flag, the flag in lower case with
\* blanks around the colon, the flag in the middle of a sentence, the key
\* with nothing behind the colon, a bare value, the blank line, the
\* OPEN_FINDINGS summary in three forms, and the delimiters of one block.
MarkerLines ==
    {"CODEX_APPROVAL: YES", " codex_approval : no",
     "Some text CODEX_APPROVAL: YES in sentence.", "CODEX_APPROVAL:", "YES", "",
     "OPEN_FINDINGS: NONE", "open_findings: f-001", "OPEN_FINDINGS:",
     BeginLine("A"), EndLine("A")}

\* The words of a line (the maximal runs without white space, the colon a
\* word of its own).
WordsOf(line) ==
    CASE line = "CODEX_APPROVAL: YES" -> <<"CODEX_APPROVAL", ":", "YES">>
      [] line = " codex_approval : no" -> <<"codex_approval", ":", "no">>
      [] line = "Some text CODEX_APPROVAL: YES in sentence."
            -> <<"Some", "text", "CODEX_APPROVAL", ":", "YES", "in", "sentence.">>
      [] line = "CODEX_APPROVAL:" -> <<"CODEX_APPROVAL", ":">>
      [] line = "OPEN_FINDINGS: NONE" -> <<"OPEN_FINDINGS", ":", "NONE">>
      [] line = "open_findings: f-001" -> <<"open_findings", ":", "f-001">>
      [] line = "OPEN_FINDINGS:" -> <<"OPEN_FINDINGS", ":">>
      [] line = "" -> <<>>
      [] OTHER -> <<line>>

\* str.upper() and re.IGNORECASE on the words.
upper_word(word) ==
    CASE word = "codex_approval" -> "CODEX_APPROVAL"
      [] word = "open_findings" -> "OPEN_FINDINGS"
      [] word = "no" -> "NO"
      [] word = "f-001" -> "F-001"
      [] word = "Some" -> "SOME"
      [] word = "text" -> "TEXT"
      [] word = "in" -> "IN"
      [] word = "sentence." -> "SENTENCE."
      [] OTHER -> word

\* The text as the pattern sees it: the words of the lines with a line
\* break behind every line but the last.
RECURSIVE TokensOf(_)
TokensOf(text) ==
    IF text = <<>> THEN <<>>
    ELSE IF Len(text) = 1 THEN WordsOf(text[1])
    ELSE WordsOf(text[1]) \o <<"\n">> \o TokensOf(Tail(text))

\* `^` under re.MULTILINE: the start of the text or behind a line break.
LineStart(s, i) == i = 1 \/ s[i - 1] = "\n"

\* `$` under re.MULTILINE: the end of the text or in front of a line break.
LineEnd(s, i) == i = Len(s) \/ s[i + 1] = "\n"

\* `\s*`: the next word behind position i, line breaks skipped; 0 if none.
NextWord(s, i) ==
    LET later == {j \in (i + 1)..Len(s) : s[j] # "\n"}
    IN  IF later = {} THEN 0 ELSE CHOOSE j \in later : \A k \in later : j <= k

\* A match of ^\s*KEY\s*:\s* at word i: the position of the first word
\* behind the colon, 0 without a match.
ValueOf(s, i, key) ==
    IF /\ LineStart(s, i)
       /\ upper_word(s[i]) = key
       /\ NextWord(s, i) # 0
       /\ s[NextWord(s, i)] = ":"
    THEN NextWord(s, NextWord(s, i))
    ELSE 0

\* A match of parse_flag's pattern at word i: (YES|NO)\s*$ behind the colon.
FlagMatch(s, i) ==
    /\ ValueOf(s, i, "CODEX_APPROVAL") # 0
    /\ upper_word(s[ValueOf(s, i, "CODEX_APPROVAL")]) \in {"YES", "NO"}
    /\ LineEnd(s, ValueOf(s, i, "CODEX_APPROVAL"))

\* parse_flag(text, "CODEX_APPROVAL"): matches[-1].group(1).upper(); two
\* matches of this pattern never overlap. "NONE" stands for None.
parse_flag_words(text) ==
    LET s == TokensOf(strip_delimited_sections(text))
        matches == {i \in 1..Len(s) : FlagMatch(s, i)}
    IN  IF matches = {} THEN "NONE"
        ELSE LET final == CHOOSE i \in matches : \A k \in matches : k <= i
             IN  upper_word(s[ValueOf(s, final, "CODEX_APPROVAL")])

\* (.+?)\s*$ from word i on: the last word of the line of word i.
RestOfLine(s, i) ==
    CHOOSE j \in i..Len(s) :
        /\ LineEnd(s, j)
        /\ \A k \in i..j : s[k] # "\n"

\* finditer of parse_open_findings' pattern from word i on: the starts of
\* the matches from left to right; the scan goes on behind a match, so a
\* marker inside the value of a match is no match of its own.
RECURSIVE FindingsMatchesFrom(_, _)
FindingsMatchesFrom(s, i) ==
    IF i > Len(s) THEN <<>>
    ELSE IF ValueOf(s, i, "OPEN_FINDINGS") # 0
         THEN <<i>> \o FindingsMatchesFrom(s, RestOfLine(s, ValueOf(s, i, "OPEN_FINDINGS")) + 1)
         ELSE FindingsMatchesFrom(s, i + 1)

\* parse_open_findings: the value of the last match, [] for NONE, else the
\* value split at the commas (no line of MarkerLines has one, so the value
\* is one entry, given by its words in upper case). found = FALSE stands
\* for None.
parse_open_findings_words(text) ==
    LET s == TokensOf(strip_delimited_sections(text))
        matches == FindingsMatchesFrom(s, 1)
    IN  IF matches = <<>> THEN [found |-> FALSE, ids |-> <<>>]
        ELSE LET start == ValueOf(s, matches[Len(matches)], "OPEN_FINDINGS")
                 raw == [j \in 1..(RestOfLine(s, start) - start + 1) |->
                            upper_word(s[start + j - 1])]
             IN  [found |-> TRUE,
                  ids |-> IF raw = <<"NONE">> THEN <<>> ELSE <<raw>>]

\* The reviewer writes its answer.
ReviewerWrites ==
    /\ markers_pc = "idle"
    /\ \E text \in SeqsUpTo(MarkerLines, MaxMarkerLines) : marker_lines' = text
    /\ markers_pc' = "written"
    /\ UNCHANGED extracted
    /\ OnlyMarkers

\* The phase reads the approval flag and the OPEN_FINDINGS summary.
ExtractMarkers ==
    /\ markers_pc = "written"
    /\ extracted' = [flag |-> parse_flag_words(marker_lines),
                     found |-> parse_open_findings_words(marker_lines).found,
                     ids |-> parse_open_findings_words(marker_lines).ids]
    /\ markers_pc' = "extracted"
    /\ UNCHANGED marker_lines
    /\ OnlyMarkers

InitMarkers ==
    /\ PipelineIdle
    /\ CheckedIdle
    /\ StreamIdle
    /\ ParseIdle
    /\ ExtractIdle
    /\ HistoryIdle
    /\ PoisonIdle
    /\ LockIdle
    /\ PathsIdle
    /\ AtomicIdle
    /\ ContractIdle
    /\ StripIdle
    /\ MarkersIdle

NextMarkers ==
    \/ ReviewerWrites
    \/ ExtractMarkers

SpecMarkers == InitMarkers /\ [][NextMarkers]_vars

\* The lines of the stripped text that are a flag on a line of their own.
FlagLines(text) ==
    {i \in 1..Len(text) :
        /\ Len(WordsOf(text[i])) = 3
        /\ upper_word(WordsOf(text[i])[1]) = "CODEX_APPROVAL"
        /\ WordsOf(text[i])[2] = ":"
        /\ upper_word(WordsOf(text[i])[3]) \in {"YES", "NO"}}

\* The lines of the stripped text that are an OPEN_FINDINGS summary on a
\* line of their own.
SummaryLines(text) ==
    {i \in 1..Len(text) :
        /\ Len(WordsOf(text[i])) = 3
        /\ upper_word(WordsOf(text[i])[1]) = "OPEN_FINDINGS"
        /\ WordsOf(text[i])[2] = ":"}

LastOf(lines) == CHOOSE i \in lines : \A k \in lines : k <= i

\* C25: the value extracted for the approval flag and for the OPEN_FINDINGS
\* summary is that of the last line outside echoed blocks that is the marker
\* on a line of its own, and no value if there is no such line.
C25_LastOccurrenceWins ==
    markers_pc = "extracted" =>
        LET text == strip_delimited_sections(marker_lines)
        IN  /\ extracted.flag =
                  IF FlagLines(text) = {} THEN "NONE"
                  ELSE upper_word(WordsOf(text[LastOf(FlagLines(text))])[3])
            /\ extracted.found = (SummaryLines(text) # {})
            /\ SummaryLines(text) # {} =>
                  LET value == upper_word(WordsOf(text[LastOf(SummaryLines(text))])[3])
                  IN  extracted.ids = IF value = "NONE" THEN <<>> ELSE << <<value>> >>

\* ---------------------------------------------------------------------------
\* atomic_write_file and its four callers, with a crash of the writing
\* process at any step.
\* ---------------------------------------------------------------------------

MaxWrites == 2

MaxVersion == 2

\* The number of pieces in which the content of a file reaches the disk.
MaxChunks == 2

Content(version, pieces) == [exists |-> TRUE, version |-> version, chunks |-> pieces]

Complete(file) == file.exists /\ file.chunks = MaxChunks

\* save_state, write_cycle_checkpoint, write_file: the content is built from
\* the arguments, then atomic_write_file is called. append_markdown: the
\* content is what the file holds with one more section.
StartWrite(p) ==
    /\ apc = "idle"
    /\ nwrites < MaxWrites
    /\ \E version \in 1..MaxVersion :
          /\ p = "10_phase1_plan.md" => version = files[p].version + 1
          /\ job' = [path |-> p, old |-> files[p], new |-> version]
    /\ apc' = "mkdir"
    /\ nwrites' = nwrites + 1
    /\ UNCHANGED <<files, dirs, tmp, stale>>
    /\ OnlyAtomic

\* path.parent.mkdir(parents=True, exist_ok=True)
MakeDirs ==
    /\ apc = "mkdir"
    /\ dirs' = dirs \cup {parent(job.path)}
    /\ apc' = "create"
    /\ UNCHANGED <<files, tmp, stale, job, nwrites>>
    /\ OnlyAtomic

\* tempfile.NamedTemporaryFile(dir=path.parent, ..., delete=False): a new,
\* empty file under a name no other file has.
CreateTmp ==
    /\ apc = "create"
    /\ tmp' = [exists |-> TRUE, dir |-> parent(job.path), version |-> job.new, chunks |-> 0]
    /\ apc' = "write"
    /\ UNCHANGED <<files, dirs, stale, job, nwrites>>
    /\ OnlyAtomic

\* A writer that writes the content into the canonical file itself.
TmpWrite_InPlace ==
    /\ apc = "write"
    /\ tmp.chunks < MaxChunks
    /\ tmp' = [tmp EXCEPT !.chunks = @ + 1]
    /\ files' = [files EXCEPT ![job.path] = Content(job.new, tmp.chunks + 1)]
    /\ UNCHANGED <<dirs, stale, job, apc, nwrites>>
    /\ OnlyAtomic

\* tmp.write(content): one more piece of the content reaches the temporary
\* file.
TmpWrite ==
    /\ apc = "write"
    /\ tmp.chunks < MaxChunks
    /\ tmp' = [tmp EXCEPT !.chunks = @ + 1]
    /\ UNCHANGED <<files, dirs, stale, job, apc, nwrites>>
    /\ OnlyAtomic

\* The end of the with block: the temporary file is closed, all written.
TmpClose ==
    /\ apc = "write"
    /\ tmp.chunks = MaxChunks
    /\ apc' = "replace"
    /\ UNCHANGED <<files, dirs, tmp, stale, job, nwrites>>
    /\ OnlyAtomic

\* os.replace(tmp_path, path): the canonical name now names the temporary
\* file's content, in one step.
Replace ==
    /\ apc = "replace"
    /\ files' = [files EXCEPT ![job.path] = Content(tmp.version, tmp.chunks)]
    /\ tmp' = NoTmp
    /\ job' = NoJob
    /\ apc' = "idle"
    /\ UNCHANGED <<dirs, stale, nwrites>>
    /\ OnlyAtomic

\* The process dies, or tmp.write / os.replace raises: nothing more is
\* done; a temporary file that exists stays where it is.
WriterCrashes ==
    /\ apc \in {"mkdir", "create", "write", "replace"}
    /\ apc' = "crashed"
    /\ UNCHANGED <<files, dirs, tmp, stale, job, nwrites>>
    /\ OnlyAtomic

\* The next invocation: the temporary file of the crashed write is one
\* more stale file in its directory.
WriterRestarts ==
    /\ apc = "crashed"
    /\ stale' = IF tmp.exists THEN stale + 1 ELSE stale
    /\ tmp' = NoTmp
    /\ job' = NoJob
    /\ apc' = "idle"
    /\ UNCHANGED <<files, dirs, nwrites>>
    /\ OnlyAtomic

\* Every canonical file is absent or holds one complete document.
InitAtomic ==
    /\ PipelineIdle
    /\ CheckedIdle
    /\ StreamIdle
    /\ ParseIdle
    /\ ExtractIdle
    /\ HistoryIdle
    /\ PoisonIdle
    /\ LockIdle
    /\ PathsIdle
    /\ ContractIdle
    /\ StripIdle
    /\ MarkersIdle
    /\ files \in [WritePaths -> {Absent, Content(1, MaxChunks)}]
    /\ dirs = {parent(p) : p \in {q \in WritePaths : files[q].exists}}
    /\ tmp = NoTmp
    /\ stale = 0
    /\ job = NoJob
    /\ apc = "idle"
    /\ nwrites = 0

NextAtomic ==
    \/ \E p \in WritePaths : StartWrite(p)
    \/ MakeDirs
    \/ CreateTmp
    \/ TmpWrite
    \/ TmpClose
    \/ Replace
    \/ WriterCrashes
    \/ WriterRestarts

SpecAtomic == InitAtomic /\ [][NextAtomic]_vars

\* C26: whatever step of a write the process crashes at, the canonical file
\* holds its complete previous content or the complete new content, never a
\* part of one; its content changes only in the rename of a complete
\* temporary file of the same directory.
C26_AtomicPersistence ==
    [][/\ \A p \in WritePaths : files'[p] = Absent \/ Complete(files'[p])
       /\ job' # NoJob =>
              files'[job'.path] \in {job'.old, Content(job'.new, MaxChunks)}
       /\ files' # files =>
              /\ apc = "replace"
              /\ tmp.exists /\ tmp.dir = parent(job.path) /\ tmp.chunks = MaxChunks
              /\ files' = [files EXCEPT ![job.path] = Content(job.new, MaxChunks)]]_vars

\* A crash with the temporary file half written, beside a canonical file
\* that holds another version.
C26_Witness ==
    /\ apc = "crashed"
    /\ tmp.exists
    /\ tmp.chunks \in 1..(MaxChunks - 1)
    /\ files[job.path].exists
    /\ files[job.path].version # job.new

\* ---------------------------------------------------------------------------
\* Path hardening: the paths of a loaded state on the way from the state
\* file through ensure_state_shape and recover_state_from_checkpoint into
\* the RunContext of a resumed run.
\* ---------------------------------------------------------------------------

\* Path.resolve() on the components: "..", taken from left to right, drops
\* the component before it (there are no symbolic links).
RECURSIVE Normalize(_, _)
Normalize(done, rest) ==
    IF rest = <<>> THEN done
    ELSE IF Head(rest) = ".."
         THEN Normalize(IF done = <<>> THEN <<>> ELSE SubSeq(done, 1, Len(done) - 1),
                        Tail(rest))
         ELSE Normalize(Append(done, Head(rest)), Tail(rest))

resolve(p) ==
    IF p.abs THEN AbsPath(Normalize(<<>>, p.parts))
    ELSE AbsPath(Normalize(<<>>, cwd.parts \o p.parts))

\* Path.is_relative_to(root), both resolved.
is_relative_to(p, root) ==
    /\ Len(root.parts) <= Len(p.parts)
    /\ SubSeq(p.parts, 1, Len(root.parts)) = root.parts

\* allowed_roots in ensure_state_shape
allowed_roots == {resolve(ARTIFACT_ROOT_DIR), resolve(cwd)}

is_within_allowed_roots(p) == \E root \in allowed_roots : is_relative_to(p, root)

\* _validate_loaded_path: ok = FALSE stands for the ValueError. A missing
\* key is the caller's KeyError.
validate_loaded_path(raw_path) ==
    [ok |-> raw_path.present /\ is_within_allowed_roots(resolve(raw_path)),
     path |-> resolve(raw_path)]

\* build_artifact_paths(new_run_id(), artifact_runs_dir)
build_artifact_paths ==
    [run_id |-> "new",
     run_dir |-> Join(ARTIFACT_RUNS_DIR, "new"),
     task |-> Join(Join(ARTIFACT_RUNS_DIR, "new"), "00_task.md"),
     phase1_shared |-> Join(Join(ARTIFACT_RUNS_DIR, "new"), "10_phase1_plan.md"),
     phase2_shared |-> Join(Join(ARTIFACT_RUNS_DIR, "new"), "20_phase2_implementation.md")]

\* The task file of the command line.
cli_task_file == RelPath(<<"task.md">>)

\* The paths a persisted document may hold: the run directory of an earlier
\* run, a file of the working directory, a path outside, a path that leaves
\* the working directory through "..", and no path at all.
RawPaths ==
    {RelPath(<<".orchestrator", "runs", "old">>),
     AbsPath(<<"work", "notes.md">>),
     AbsPath(<<"etc", "cron.d">>),
     AbsPath(<<"work", ".orchestrator", "..", "..", "home">>),
     MissingPath}

\* The paths tried for the three files of the run directory.
RawFilePaths ==
    {RelPath(<<".orchestrator", "runs", "old", "file.md">>),
     AbsPath(<<"etc", "passwd">>),
     MissingPath}

\* What the state file may hold.
PersistedDocs ==
    [version : {1, 2},
     task_file : RawFilePaths,
     artifacts : [run_id : {"none", "old"}, run_dir : RawPaths, task : RawFilePaths,
                  phase1_shared : RawFilePaths, phase2_shared : RawFilePaths],
     status : {"running", "frozen", "done"},
     cycle : {0, 1}]

\* What the checkpoint file of the state's phase and cycle may hold; the
\* fields that play no part after the recovery are fixed.
CheckpointDocs ==
    {d \in PersistedDocs :
        d.version = 2 /\ d.status = "running" /\ d.cycle = 1
        /\ d.task_file = AbsPath(<<"etc", "passwd">>)}

\* artifacts.setdefault(key, migrated[key])
SetDefault(value, default) == IF value.present THEN value ELSE default

\* ensure_state_shape, the paths: a document that is not a version-2 state
\* gives init_state with new artifact paths; task_file is validated and
\* falls back to the command line's; without a run_id the artifact paths
\* present are kept and the missing ones filled in; with a run_id the four
\* paths are validated and all regenerated if one is missing or outside.
ensure_state_shape_paths(loaded) ==
    IF loaded.version # 2
    THEN [NoPathState EXCEPT !.version = 2, !.task_file = cli_task_file,
                             !.artifacts = build_artifact_paths]
    ELSE LET tf == validate_loaded_path(SetDefault(loaded.task_file, cli_task_file))
             a == loaded.artifacts
             all_ok == \A q \in {a.run_dir, a.task, a.phase1_shared, a.phase2_shared} :
                           validate_loaded_path(q).ok
         IN  [loaded EXCEPT
                 !.task_file = IF tf.ok THEN tf.path ELSE resolve(cli_task_file),
                 !.artifacts =
                     IF a.run_id = "none"
                     THEN [run_id |-> build_artifact_paths.run_id,
                           run_dir |-> SetDefault(a.run_dir, build_artifact_paths.run_dir),
                           task |-> SetDefault(a.task, build_artifact_paths.task),
                           phase1_shared |->
                               SetDefault(a.phase1_shared, build_artifact_paths.phase1_shared),
                           phase2_shared |->
                               SetDefault(a.phase2_shared, build_artifact_paths.phase2_shared)]
                     ELSE IF all_ok
                     THEN [run_id |-> a.run_id,
                           run_dir |-> validate_loaded_path(a.run_dir).path,
                           task |-> validate_loaded_path(a.task).path,
                           phase1_shared |-> validate_loaded_path(a.phase1_shared).path,
                           phase2_shared |-> validate_loaded_path(a.phase2_shared).path]
                     ELSE build_artifact_paths]

\* recover_state_from_checkpoint: the checkpoint of the cycle of a running
\* or frozen phase, as it is on disk, takes the place of the state. checkpoint.version
\* = 0 stands for no file.
recover_state_from_checkpoint_paths(shaped, checkpoint) ==
    IF shaped.status \notin {"running", "frozen"} \/ shaped.cycle <= 0
       \/ checkpoint.version = 0
    THEN shaped
    ELSE checkpoint

\* configure_artifacts
configure_artifacts(a) ==
    [run_artifact_dir |-> a.run_dir,
     task_snapshot_file |-> a.task,
     phase1_shared_file |-> a.phase1_shared,
     phase2_shared_file |-> a.phase2_shared]

\* run_pipeline --resume, line 925: load_state and ensure_state_shape.
LoadAndShape ==
    /\ hpc = "idle"
    /\ \E loaded \in PersistedDocs : path_state' = ensure_state_shape_paths(loaded)
    /\ \E flag \in BOOLEAN : path_args' = [no_recover |-> flag]
    /\ hpc' = "shaped"
    /\ UNCHANGED <<ctx_paths, touched>>
    /\ OnlyPaths

\* run_pipeline, lines 926 to 931: the recovery from the checkpoint on disk
\* unless --no-recover, then configure_artifacts. An artifacts entry
\* without all four keys ends the run with a KeyError.
RecoverAndConfigure ==
    /\ hpc = "shaped"
    /\ \E checkpoint \in CheckpointDocs \cup {NoPathState} :
          LET recovered == IF path_args.no_recover THEN path_state
                           ELSE recover_state_from_checkpoint_paths(path_state, checkpoint)
              a == recovered.artifacts
          IN  /\ path_state' = recovered
              /\ IF \A q \in {a.run_dir, a.task, a.phase1_shared, a.phase2_shared} : q.present
                 THEN ctx_paths' = configure_artifacts(a) /\ hpc' = "configured"
                 ELSE ctx_paths' = ctx_paths /\ hpc' = "failed"
    /\ UNCHANGED <<path_args, touched>>
    /\ OnlyPaths

\* run_pipeline, lines 955 to 958: the run directory is made and the task
\* snapshot written; the phases append to the two shared files.
UsePaths ==
    /\ hpc = "configured"
    /\ touched' = {resolve(ctx_paths.run_artifact_dir), resolve(ctx_paths.task_snapshot_file),
                   resolve(ctx_paths.phase1_shared_file), resolve(ctx_paths.phase2_shared_file)}
    /\ hpc' = "running"
    /\ UNCHANGED <<path_state, path_args, ctx_paths>>
    /\ OnlyPaths

InitPaths ==
    /\ PipelineIdle
    /\ CheckedIdle
    /\ StreamIdle
    /\ ParseIdle
    /\ ExtractIdle
    /\ HistoryIdle
    /\ PoisonIdle
    /\ LockIdle
    /\ ContractIdle
    /\ StripIdle
    /\ MarkersIdle
    /\ AtomicIdle
    /\ PathsIdle

NextPaths ==
    \/ LoadAndShape
    \/ RecoverAndConfigure
    \/ UsePaths

SpecPaths == InitPaths /\ [][NextPaths]_vars

\* C27: every path a resumed run creates or writes resolves under the
\* artifact root or the working directory, whatever the state file and the
\* checkpoint files hold.
C27_PathHardening ==
    \A p \in touched : is_within_allowed_roots(p)

\* ---------------------------------------------------------------------------
\* The inbox lock: several watch_inbox instances on one inbox directory.
\* ---------------------------------------------------------------------------

MaxStarts == 3

MaxProcessed == 2

\* watch_inbox is called: the inbox and outbox directories are made.
StartWatcher(w) ==
    /\ wpc[w] = "stopped"
    /\ starts < MaxStarts
    /\ starts' = starts + 1
    /\ wpc' = [wpc EXCEPT ![w] = "started"]
    /\ wresult' = [wresult EXCEPT ![w] = -1]
    /\ processed' = [processed EXCEPT ![w] = 0]
    /\ UNCHANGED <<fcntl, flock>>
    /\ OnlyLock

\* acquire_inbox_lock taking the lock before it looks whether it is free.
AcquireLock_Unconditional(w) ==
    /\ wpc[w] = "started"
    /\ flock' = IF fcntl THEN flock \cup {w} ELSE flock
    /\ wpc' = [wpc EXCEPT ![w] = "watching"]
    /\ UNCHANGED <<fcntl, wresult, processed, starts>>
    /\ OnlyLock

\* acquire_inbox_lock and the test of its result in watch_inbox: the lock
\* file is opened; without fcntl the handle is returned as it is; with
\* fcntl, flock(LOCK_EX | LOCK_NB) takes the lock if no other open file
\* has it, and raises BlockingIOError at once if one has: the handle is
\* closed and watch_inbox returns 1.
AcquireLock(w) ==
    /\ wpc[w] = "started"
    /\ IF ~fcntl
       THEN /\ wpc' = [wpc EXCEPT ![w] = "watching"]
            /\ UNCHANGED <<flock, wresult>>
       ELSE IF flock = {}
       THEN /\ flock' = {w}
            /\ wpc' = [wpc EXCEPT ![w] = "watching"]
            /\ UNCHANGED wresult
       ELSE /\ wpc' = [wpc EXCEPT ![w] = "returned"]
            /\ wresult' = [wresult EXCEPT ![w] = 1]
            /\ UNCHANGED flock
    /\ UNCHANGED <<fcntl, processed, starts>>
    /\ OnlyLock

\* One round of the loop with a ready task: the task is processed and
\* moved.
ProcessReadyTask(w) ==
    /\ wpc[w] = "watching"
    /\ processed[w] < MaxProcessed
    /\ processed' = [processed EXCEPT ![w] = @ + 1]
    /\ UNCHANGED <<fcntl, flock, wpc, wresult, starts>>
    /\ OnlyLock

\* KeyboardInterrupt in the loop: the finally clause releases the lock,
\* watch_inbox returns 0.
OperatorInterrupt(w) ==
    /\ wpc[w] = "watching"
    /\ flock' = flock \ {w}
    /\ wpc' = [wpc EXCEPT ![w] = "returned"]
    /\ wresult' = [wresult EXCEPT ![w] = 0]
    /\ UNCHANGED <<fcntl, processed, starts>>
    /\ OnlyLock

\* An exception leaves the loop (list_inbox_tasks, sleep_fn, time_fn): the
\* finally clause releases the lock, the exception goes on to the caller.
LoopRaises(w) ==
    /\ wpc[w] = "watching"
    /\ flock' = flock \ {w}
    /\ wpc' = [wpc EXCEPT ![w] = "raised"]
    /\ UNCHANGED <<fcntl, wresult, processed, starts>>
    /\ OnlyLock

\* The instance can be started again.
WatcherEnds(w) ==
    /\ wpc[w] \in {"returned", "raised"}
    /\ wpc' = [wpc EXCEPT ![w] = "stopped"]
    /\ UNCHANGED <<fcntl, flock, wresult, processed, starts>>
    /\ OnlyLock

\* The platform has the fcntl module or has not.
InitLock ==
    /\ PipelineIdle
    /\ CheckedIdle
    /\ StreamIdle
    /\ ParseIdle
    /\ ExtractIdle
    /\ HistoryIdle
    /\ PoisonIdle
    /\ ContractIdle
    /\ StripIdle
    /\ MarkersIdle
    /\ AtomicIdle
    /\ PathsIdle
    /\ fcntl \in BOOLEAN
    /\ flock = {}
    /\ wpc = [w \in Watchers |-> "stopped"]
    /\ wresult = [w \in Watchers |-> -1]
    /\ processed = [w \in Watchers |-> 0]
    /\ starts = 0

NextLock ==
    \E w \in Watchers :
        \/ StartWatcher(w)
        \/ AcquireLock(w)
        \/ ProcessReadyTask(w)
        \/ OperatorInterrupt(w)
        \/ LoopRaises(w)
        \/ WatcherEnds(w)

SpecLock == InitLock /\ [][NextLock]_vars

\* C29 as stated, for any platform: at most one instance is in the watch
\* loop at any time and it holds
\* the lock; an instance that finds the lock taken returns 1 in the same
\* step, having processed nothing; an instance that has left the loop no
\* longer holds the lock.
C29_SingleWatcher ==
    [][/\ Cardinality({w \in Watchers : wpc'[w] = "watching"}) <= 1
       /\ \A w \in Watchers :
             /\ wpc'[w] = "watching" => w \in flock'
             /\ wpc'[w] # "watching" => w \notin flock'
             /\ (wpc[w] = "started" /\ wpc'[w] # "started" /\ flock # {}) =>
                    wpc'[w] = "returned" /\ wresult'[w] = 1 /\ processed'[w] = 0]_vars

\* C29, on a platform with the fcntl module: at most one instance is in the
\* watch loop at any time and it holds the lock; an instance that finds the
\* lock taken returns 1 in the same step, having processed nothing; an
\* instance that has left the loop no longer holds the lock.
C29_SingleWatcherWithFcntl ==
    [][fcntl =>
       /\ Cardinality({w \in Watchers : wpc'[w] = "watching"}) <= 1
       /\ \A w \in Watchers :
             /\ wpc'[w] = "watching" => w \in flock'
             /\ wpc'[w] # "watching" => w \notin flock'
             /\ (wpc[w] = "started" /\ wpc'[w] # "started" /\ flock # {}) =>
                    wpc'[w] = "returned" /\ wresult'[w] = 1 /\ processed'[w] = 0]_vars

\* An instance has returned 1 while another one, which has processed a
\* task, is in the loop.
C29_Witness ==
    /\ fcntl
    /\ \E w \in Watchers :
          /\ wpc[w] = "returned" /\ wresult[w] = 1
          /\ \E other \in Watchers \ {w} : wpc[other] = "watching" /\ processed[other] > 0

\* ---------------------------------------------------------------------------
\* The loop of watch_inbox for one instance that is stopped and started
\* again: attempts sidecar, success marker, poison pill, stuck limit.
\*   location        where the task file is: "inbox", or moved to "done",
\*                   "poison", "move_error" (failed outbox) or "stuck"
\*   sidecar         the count in <task>.attempts, -1 without the file
\*   executions      history: the calls of process_task for the task
\*   failures        history: the calls that returned non-zero or raised
\*   exit_zero       history: a call for the task has returned 0
\*   move_failed     history: a move of the task to an outbox has raised
\* ---------------------------------------------------------------------------

MaxInboxRetries == 2

MaxInterrupts == 2

STUCK_RETRY_MULTIPLIER == 3

\* list_inbox_tasks and ready[0]: the first task file still in the inbox
\* (all files are older than min_file_age_seconds).
Ready == {t \in InboxTasks : location[t] = "inbox"}

FirstReady == IF "a.md" \in Ready THEN "a.md" ELSE "b.md"

\* read_attempt_count
read_attempt_count(t) == IF sidecar[t] < 0 THEN 0 ELSE sidecar[t]

\* stuck_limit > 0 and current_attempts >= stuck_limit
IsStuck(t) ==
    /\ inbox_max_retries * STUCK_RETRY_MULTIPLIER > 0
    /\ read_attempt_count(t) >= inbox_max_retries * STUCK_RETRY_MULTIPLIER

\* watch_inbox is called and enters its loop.
StartWatch ==
    /\ ipc = "stopped"
    /\ ipc' = "poll"
    /\ UNCHANGED <<inbox_max_retries, location, sidecar, success_marker, inbox_task,
                   executions, failures, exit_zero, move_failed, interrupts>>
    /\ OnlyPoison

\* The stuck limit is reached: the task is renamed to .md.stuck, sidecar and
\* marker are deleted.
StuckTask ==
    /\ ipc = "poll"
    /\ Ready # {}
    /\ IsStuck(FirstReady)
    /\ location' = [location EXCEPT ![FirstReady] = "stuck"]
    /\ sidecar' = [sidecar EXCEPT ![FirstReady] = -1]
    /\ success_marker' = [success_marker EXCEPT ![FirstReady] = FALSE]
    /\ UNCHANGED <<inbox_max_retries, ipc, inbox_task, executions, failures, exit_zero,
                   move_failed, interrupts>>
    /\ OnlyPoison

\* process_task is called for the first ready task without success marker.
BeginTask ==
    /\ ipc = "poll"
    /\ Ready # {}
    /\ ~IsStuck(FirstReady)
    /\ ~success_marker[FirstReady]
    /\ inbox_task' = FirstReady
    /\ executions' = [executions EXCEPT ![FirstReady] = @ + 1]
    /\ ipc' = "processing"
    /\ UNCHANGED <<inbox_max_retries, location, sidecar, success_marker, failures,
                   exit_zero, move_failed, interrupts>>
    /\ OnlyPoison

\* The failure branch counting one failure more before it gives up.
TaskFails_OneMore ==
    /\ ipc = "processing"
    /\ LET t == inbox_task
           attempts == read_attempt_count(t) + 1
       IN  /\ failures' = [failures EXCEPT ![t] = @ + 1]
           /\ IF attempts > inbox_max_retries
              THEN \E ok \in BOOLEAN :
                      IF ok
                      THEN /\ location' = [location EXCEPT ![t] = "poison"]
                           /\ sidecar' = [sidecar EXCEPT ![t] = -1]
                           /\ success_marker' = [success_marker EXCEPT ![t] = FALSE]
                           /\ UNCHANGED move_failed
                      ELSE /\ sidecar' = [sidecar EXCEPT ![t] = attempts]
                           /\ move_failed' = [move_failed EXCEPT ![t] = TRUE]
                           /\ UNCHANGED <<location, success_marker>>
              ELSE /\ sidecar' = [sidecar EXCEPT ![t] = attempts]
                   /\ UNCHANGED <<location, success_marker, move_failed>>
    /\ inbox_task' = "none"
    /\ ipc' = "poll"
    /\ UNCHANGED <<inbox_max_retries, executions, exit_zero, interrupts>>
    /\ OnlyPoison

\* process_task returns non-zero or raises an Exception: the count of the
\* sidecar plus one is written back; from max_retries on the task is moved
\* to the failed outbox as <name>.poison and the sidecar deleted, unless the
\* move raises, which leaves the task and its sidecar in the inbox.
TaskFails ==
    /\ ipc = "processing"
    /\ LET t == inbox_task
           attempts == read_attempt_count(t) + 1
       IN  /\ failures' = [failures EXCEPT ![t] = @ + 1]
           /\ IF attempts >= inbox_max_retries
              THEN \E ok \in BOOLEAN :
                      IF ok
                      THEN /\ location' = [location EXCEPT ![t] = "poison"]
                           /\ sidecar' = [sidecar EXCEPT ![t] = -1]
                           /\ success_marker' = [success_marker EXCEPT ![t] = FALSE]
                           /\ UNCHANGED move_failed
                      ELSE /\ sidecar' = [sidecar EXCEPT ![t] = attempts]
                           /\ move_failed' = [move_failed EXCEPT ![t] = TRUE]
                           /\ UNCHANGED <<location, success_marker>>
              ELSE /\ sidecar' = [sidecar EXCEPT ![t] = attempts]
                   /\ UNCHANGED <<location, success_marker, move_failed>>
    /\ inbox_task' = "none"
    /\ ipc' = "poll"
    /\ UNCHANGED <<inbox_max_retries, executions, exit_zero, interrupts>>
    /\ OnlyPoison

\* The move to the done outbox; marker_exists says whether the success
\* marker of the task is on disk. Moved: sidecar and marker are deleted. If
\* the move raises, the count of the sidecar plus one is written back, and
\* from max_retries on the task is moved to the failed outbox, as
\* <name>.move_error if the marker exists and as <name>.poison if not,
\* unless that move raises as well.
MoveToDone(t, marker_exists) ==
    \E ok \in BOOLEAN, ok_failed \in BOOLEAN :
        IF ok
        THEN /\ location' = [location EXCEPT ![t] = "done"]
             /\ sidecar' = [sidecar EXCEPT ![t] = -1]
             /\ success_marker' = [success_marker EXCEPT ![t] = FALSE]
             /\ UNCHANGED move_failed
        ELSE /\ move_failed' = [move_failed EXCEPT ![t] = TRUE]
             /\ IF read_attempt_count(t) + 1 >= inbox_max_retries /\ ok_failed
                THEN /\ location' = [location EXCEPT ![t] =
                                        IF marker_exists THEN "move_error" ELSE "poison"]
                     /\ sidecar' = [sidecar EXCEPT ![t] = -1]
                     /\ success_marker' = [success_marker EXCEPT ![t] = FALSE]
                ELSE /\ sidecar' = [sidecar EXCEPT ![t] = read_attempt_count(t) + 1]
                     /\ success_marker' = [success_marker EXCEPT ![t] = marker_exists]
                     /\ UNCHANGED location

\* process_task returns 0: the success marker is written, unless the write
\* raises, which is logged only; then the task is moved to the done outbox.
TaskSucceeds ==
    /\ ipc = "processing"
    /\ exit_zero' = [exit_zero EXCEPT ![inbox_task] = TRUE]
    /\ \E marker_written \in BOOLEAN : MoveToDone(inbox_task, marker_written)
    /\ inbox_task' = "none"
    /\ ipc' = "poll"
    /\ UNCHANGED <<inbox_max_retries, executions, failures, interrupts>>
    /\ OnlyPoison

\* The first ready task has a success marker: it is not executed again,
\* only its move is tried again.
RetryMoveOnly ==
    /\ ipc = "poll"
    /\ Ready # {}
    /\ ~IsStuck(FirstReady)
    /\ success_marker[FirstReady]
    /\ MoveToDone(FirstReady, TRUE)
    /\ UNCHANGED <<inbox_max_retries, ipc, inbox_task, executions, failures, exit_zero,
                   interrupts>>
    /\ OnlyPoison

\* KeyboardInterrupt while the loop polls or sleeps: watch_inbox returns 0.
InterruptAtPoll ==
    /\ ipc = "poll"
    /\ interrupts < MaxInterrupts
    /\ interrupts' = interrupts + 1
    /\ ipc' = "stopped"
    /\ UNCHANGED <<inbox_max_retries, location, sidecar, success_marker, inbox_task,
                   executions, failures, exit_zero, move_failed>>
    /\ OnlyPoison

\* KeyboardInterrupt while process_task runs: it is no Exception, so it
\* passes the except clause around process_task and ends watch_inbox; the
\* sidecar is not written.
InterruptDuringTask ==
    /\ ipc = "processing"
    /\ interrupts < MaxInterrupts
    /\ interrupts' = interrupts + 1
    /\ ipc' = "stopped"
    /\ inbox_task' = "none"
    /\ UNCHANGED <<inbox_max_retries, location, sidecar, success_marker, executions,
                   failures, exit_zero, move_failed>>
    /\ OnlyPoison

InitPoison ==
    /\ PipelineIdle
    /\ CheckedIdle
    /\ StreamIdle
    /\ ParseIdle
    /\ ExtractIdle
    /\ HistoryIdle
    /\ ContractIdle
    /\ StripIdle
    /\ MarkersIdle
    /\ AtomicIdle
    /\ PathsIdle
    /\ LockIdle
    /\ inbox_max_retries \in 1..MaxInboxRetries
    /\ location = [t \in InboxTasks |-> "inbox"]
    /\ sidecar = [t \in InboxTasks |-> -1]
    /\ success_marker = [t \in InboxTasks |-> FALSE]
    /\ ipc = "stopped"
    /\ inbox_task = "none"
    /\ executions = [t \in InboxTasks |-> 0]
    /\ failures = [t \in InboxTasks |-> 0]
    /\ exit_zero = [t \in InboxTasks |-> FALSE]
    /\ move_failed = [t \in InboxTasks |-> FALSE]
    /\ interrupts = 0

NextPoison ==
    \/ StartWatch
    \/ StuckTask
    \/ BeginTask
    \/ TaskFails
    \/ TaskSucceeds
    \/ RetryMoveOnly
    \/ InterruptAtPoll
    \/ InterruptDuringTask

SpecPoison == InitPoison /\ [][NextPoison]_vars

C31_DoneMoveFailureIsPoison ==
    \A t \in InboxTasks : (exit_zero[t] /\ failures[t] = 0 /\ move_failed[t]) =>
        /\ location[t] # "move_error"
        /\ location[t] = "inbox" => executions[t] >= read_attempt_count(t)
        /\ location[t] = "poison" => sidecar[t] = -1

\* The positions of run_phase1 / run_phase2 at which an agent is called.
AgentCallPositions == {"p1_plan", "p1_review", "p1_confirm", "p2_impl", "p2_review"}

\* The phase whose loop the invocation is in.
RunningPhase == IF pc \in Phase1Positions THEN "phase1" ELSE "phase2"

\* C32: the checkpoint keyed (phase, c) is written before the cycle
\* counter c is persisted and before any agent call of cycle c.  The step
\* that persists the counter c finds the checkpoint of (phase, c) equal to
\* the RunState in memory, which is the state before cycle c; an agent is
\* called only with the checkpoint of its cycle written and the counter
\* persisted; and whenever the state file says a phase is running in a cycle
\* c > 0, the checkpoint of (phase, c) exists and holds a RunState in which
\* that phase is running in cycle c - 1.
C32_CheckpointPrecedesCycle ==
    [][/\ \A phase \in PhaseKeys :
            (CycleIn(disk', phase) # CycleIn(disk, phase) /\ pc \in AfterCheckpoint) =>
                /\ checkpoints[[phase |-> phase, cycle |-> cycle]] = state
                /\ CycleIn(state, phase) = cycle - 1
                /\ CycleIn(disk', phase) = cycle
                /\ checkpoints' = checkpoints
       /\ pc' \in AgentCallPositions =>
            /\ checkpoints'[[phase |-> RunningPhase', cycle |-> cycle']] # NoFile
            /\ CycleIn(disk', RunningPhase') = cycle'
            /\ CycleIn(checkpoints'[[phase |-> RunningPhase', cycle |-> cycle']],
                       RunningPhase') = cycle' - 1
       /\ \A phase \in PhaseKeys :
            (StatusIn(disk', phase) = "running" /\ CycleIn(disk', phase) > 0) =>
                LET ckpt == checkpoints'[[phase |-> phase, cycle |-> CycleIn(disk', phase)]]
                IN  /\ ckpt # NoFile
                    /\ StatusIn(ckpt, phase) = "running"
                    /\ CycleIn(ckpt, phase) = CycleIn(disk', phase) - 1]_vars

\* The second cycle of phase 2 is at its review, in an invocation that was
\* started by a resume, with the state file saying running in cycle 2.
C32_Witness ==
    /\ pc = "p2_review"
    /\ cycle = 2
    /\ invocations > 1
    /\ StatusIn(disk, "phase2") = "running"
    /\ CycleIn(disk, "phase2") = 2
    /\ checkpoints[[phase |-> "phase2", cycle |-> 2]] # NoFile

\* The RunStates persisted so far and still on disk, and those written by
\* the last step: the state file, the checkpoints and the saves.
PersistedStates ==
    {d \in {disk} \cup {checkpoints[k] : k \in CheckpointKeys}
           \cup {saved_states[i] : i \in DOMAIN saved_states} :
        d # NoState /\ d # NoFile}

\* C33: in every persisted RunState (a cycle's save, a freeze, a
\* checkpoint) phase1.codex_approval is YES only if phase1.open_findings is
\* empty, and phase2.claude_approval is YES only if phase2.open_findings is
\* empty.
C33_ApprovalWithoutOpenFindings ==
    \A d \in PersistedStates :
        /\ d.phase1.codex_approval = "YES" => d.phase1.open_findings = {}
        /\ d.phase2.claude_approval = "YES" => d.phase2.open_findings = {}

\* ---------------------------------------------------------------------------
\* The findings bookkeeping of run_phase1 / run_phase2 behind the reviewer
\* call, with the values of FINDING_STATUS and NEW_FINDING lines.
\*   phase_findings     phase["open_findings"] and phase["finding_history"]
\*   reviewer_response  the last response of the reviewer, as parsed, and
\*                      the error of validate_agent_contract for it
\*   prior_history      history: phase["finding_history"] before the step
\* ---------------------------------------------------------------------------

\* The value parse_new_findings stores for an id: f"{summary} | {acceptance}".
NewFindingText == "summary | acceptance"

\* dicts over the well-formed ids
MapsTo(values) == UNION {[ids -> values] : ids \in SUBSET WellFormedIds}

\* A reviewer response as the parse functions read it: parse_flag,
\* parse_open_findings, parse_finding_status_map (id to OPEN or CLOSED) and
\* parse_new_findings (id to its text).
StatusResponses ==
    [approval : {"YES", "NO"},
     has_open_findings : {TRUE},
     open_findings : SeqsUpTo(WellFormedIds, MaxOpenFindings),
     status_map : MapsTo({"OPEN", "CLOSED"}),
     new_findings : MapsTo({NewFindingText})]

\* The response as validate_agent_contract looks at it: the keys of the
\* two dicts only.
KeysOnly(r) ==
    [approval |-> r.approval, has_open_findings |-> r.has_open_findings,
     open_findings |-> r.open_findings,
     status_map |-> DOMAIN r.status_map, new_findings |-> DOMAIN r.new_findings]

\* for finding_id, value in overlay.items(): finding_history[finding_id] = value
Overlay(finding_history, overlay) ==
    [id \in DOMAIN finding_history \cup DOMAIN overlay |->
        IF id \in DOMAIN overlay THEN overlay[id] ELSE finding_history[id]]

\* run_phase1 / run_phase2 start on a fresh state.
BeginPhase ==
    /\ bpc = "idle"
    /\ bpc' = "ready"
    /\ UNCHANGED <<phase_findings, reviewer_response, prior_history>>
    /\ OnlyHistory

\* The reviewer call and the bookkeeping behind it: run_agent_checked
\* returns the response only if validate_agent_contract accepts it; then
\* open_findings is replaced, and finding_history is overlaid with the
\* status map and after that with the new findings.
ReviewerBookkeeping ==
    /\ bpc = "ready"
    /\ prior_history' = phase_findings.finding_history
    /\ \E r \in StatusResponses :
        LET error == validate_agent_contract_findings(
                         KeysOnly(r), PreviousOpenFindings(phase_findings))
        IN  /\ reviewer_response' =
                 [approval |-> r.approval, has_open_findings |-> r.has_open_findings,
                  open_findings |-> r.open_findings, status_map |-> r.status_map,
                  new_findings |-> r.new_findings, error |-> error]
            /\ phase_findings' =
                 IF error = "none"
                 THEN [open_findings |-> r.open_findings,
                       finding_history |->
                           Overlay(Overlay(phase_findings.finding_history, r.status_map),
                                   r.new_findings)]
                 ELSE phase_findings
    /\ bpc' = "reviewed"
    /\ OnlyHistory

\* The next cycle, or the next attempt after a rejected response.
NextReview ==
    /\ bpc = "reviewed"
    /\ reviewer_response' = NoResponse
    /\ prior_history' = EmptyMap
    /\ bpc' = "ready"
    /\ UNCHANGED phase_findings
    /\ OnlyHistory

InitHistory ==
    /\ PipelineIdle
    /\ CheckedIdle
    /\ StreamIdle
    /\ ParseIdle
    /\ ExtractIdle
    /\ ContractIdle
    /\ StripIdle
    /\ MarkersIdle
    /\ AtomicIdle
    /\ PathsIdle
    /\ LockIdle
    /\ PoisonIdle
    /\ phase_findings = [open_findings |-> <<>>, finding_history |-> EmptyMap]
    /\ reviewer_response = NoResponse
    /\ prior_history = EmptyMap
    /\ bpc = "idle"

NextHistory ==
    \/ BeginPhase
    \/ ReviewerBookkeeping
    \/ NextReview

SpecHistory == InitHistory /\ [][NextHistory]_vars

\* The reviewer step has stored the response in reviewer_response.
Stored == bpc = "reviewed" /\ reviewer_response.error = "none"

\* C34: after a reviewer step finding_history is the previous history
\* overlaid with the per-id status of this cycle, and every id in
\* open_findings is in finding_history with the status OPEN, also an id
\* raised in this cycle and an id that was CLOSED before.
C34_HistoryTracksOpenSet ==
    Stored =>
        /\ \A id \in DOMAIN prior_history \cup DOMAIN reviewer_response.status_map :
              id \notin DOMAIN reviewer_response.new_findings =>
                  /\ id \in DOMAIN phase_findings.finding_history
                  /\ phase_findings.finding_history[id] =
                         Overlay(prior_history, reviewer_response.status_map)[id]
        /\ \A id \in Elements(phase_findings.open_findings) :
              /\ id \in DOMAIN phase_findings.finding_history
              /\ phase_findings.finding_history[id] = "OPEN"

ResumeYields == recover_state_from_checkpoint(checkpoints, EnsureStateShape(disk))

\* C35: a resume with default settings has loaded, recovered and saved the
\* state and has not started a cycle; if it ends here (preflight fails),
\* the next resume yields the same RunState and no lower cycle counter.
C35_ResumeIdempotent ==
    (pc \in {"from_phase", "preflight"} /\ resumed # NoStop /\ disk = state) =>
        /\ ResumeYields = state
        /\ \A phase \in PhaseKeys : CycleIn(ResumeYields, phase) >= CycleIn(state, phase)

\* The ways run_pipeline stops out of run_phase1 / run_phase2: the
\* RuntimeError of an agent call that exhausted its retries, the
\* RuntimeError of a loop that reached max_cycles, and the return behind a
\* freeze.
StoppedInPhase == {"agent_error", "failed", "frozen"}

\* C36: when run_pipeline has stopped out of a phase, by returning or by
\* raising, the status of that phase in the state file is completed, failed
\* or frozen; after the return of 0 both phases are completed.
C36_StoppedRunIsTerminal ==
    /\ (pc = "idle" /\ last.kind \in StoppedInPhase) =>
          StatusIn(disk, disk.phase) \in {"completed", "failed", "frozen"}
    /\ (pc = "idle" /\ last.kind = "rc0") =>
          \A phase \in PhaseKeys : StatusIn(disk, phase) = "completed"

\* The step sets the sticky flag.
FlagRises == ~config.claude_quota_reached /\ config'.claude_quota_reached

\* C37 as stated: claude_quota_reached changes from false to true only in
\* a call in which the fallback agent returned a contract-valid output; once
\* true it stays true; a call that ends by raising QuotaReachedError leaves
\* the flag unchanged.
C37_StickyFlagOnSuccessOnly ==
    [][ /\ FlagRises => rpc = "fallback" /\ outcome' = Returned("gemini")
        /\ config.claude_quota_reached => config'.claude_quota_reached
        /\ (CallEndStep /\ outcome'.kind = "QuotaReachedError") =>
              config'.claude_quota_reached = config.claude_quota_reached
      ]_vars

\* C37, amended: the flag changes from false to true only in the fallback
\* step of a call, when the fallback agent returned a contract-valid output
\* or failed with a quota error of its own, the call then raising
\* QuotaReachedError for gemini; once true it stays true; a call that ends
\* by raising QuotaReachedError for another agent, and one that ends with
\* RuntimeError, leaves the flag unchanged; the fallback switch never
\* changes.
C37_StickyFlagOnFallbackOutcome ==
    [][ /\ FlagRises =>
              /\ rpc = "fallback"
              /\ config.allow_fallback_to_gemini
              /\ outcome' \in {Returned("gemini"), RaisedQuota("gemini")}
        /\ config.claude_quota_reached => config'.claude_quota_reached
        /\ (CallEndStep /\ outcome'.kind = "QuotaReachedError" /\ outcome'.agent # "gemini") =>
              config'.claude_quota_reached = config.claude_quota_reached
        /\ (CallEndStep /\ outcome'.kind = "RuntimeError") =>
              config'.claude_quota_reached = config.claude_quota_reached
        /\ (rpc = "fallback" /\ outcome' \in {Returned("gemini"), RaisedQuota("gemini")}) =>
              config'.claude_quota_reached
        /\ config'.allow_fallback_to_gemini = config.allow_fallback_to_gemini
      ]_vars

\* claude failed with a quota error, the fallback run of gemini failed with
\* a quota error as well: the call has ended with QuotaReachedError for
\* gemini and the flag is set.
C37_Witness ==
    /\ rpc = "idle"
    /\ config.claude_quota_reached
    /\ outcome = RaisedQuota("gemini")
    /\ hist.quota_failed = {"claude", "gemini"}
    /\ hist.runs["gemini"] = 1

\* ---------------------------------------------------------------------------
\* run_agent with its adapter: build_command, the process, the cleanup in
\* the finally clause, extract_output and the return.
\*   adapter            the name of the adapter of the call
\*   last_message_file  CodexAdapter._last_message_file ("none": None)
\*   last_message       the content of that temporary file ("absent": no file)
\*   written_message    history: what the process wrote into the file
\*                      ("none": it did not write)
\*   captured           returncode and stdout of the process, or the timeout
\*   agent_result       the text run_agent returned or the error it raised
\* ---------------------------------------------------------------------------

MaxAgentRuns == 2

\* Texts on stdout and in the last-message file; " " is white space only.
StdoutTexts == {"", " ", "event log"}

MessageTexts == {"", " ", "final answer"}

\* str.strip()
Strip(t) == IF t = " " THEN "" ELSE t

\* CodexAdapter.extract_output, ClaudeAdapter.extract_output,
\* GeminiAdapter.extract_output
extract_output(name, file_attr, file_content, stdout_text) ==
    IF name = "codex" /\ file_attr # "none" /\ file_content # "absent"
                      /\ Strip(file_content) # ""
    THEN Strip(file_content)
    ELSE Strip(stdout_text)

\* run_agent, entry: adapter.build_command.  The Codex adapter cleans up
\* what an earlier call may have left and creates an empty temporary file
\* for --output-last-message.
BuildCommand ==
    /\ xpc = "idle"
    /\ agent_runs < MaxAgentRuns
    /\ agent_runs' = agent_runs + 1
    /\ \E name \in AgentNames :
        /\ adapter' = name
        /\ IF name = "codex"
           THEN last_message_file' = "tmp" /\ last_message' = ""
           ELSE UNCHANGED <<last_message_file, last_message>>
    /\ written_message' = "none"
    /\ captured' = NoCapture
    /\ agent_result' = [kind |-> "none", text |-> ""]
    /\ xpc' = "built"
    /\ OnlyExtract

\* The process runs to its end or into the timeout; the Codex CLI may have
\* written its last message into the file.
ProcessRuns ==
    /\ xpc = "built"
    /\ \E code \in {0, 1}, out \in StdoutTexts, timed_out \in BOOLEAN :
          captured' = IF timed_out THEN [NoCapture EXCEPT !.timeout = TRUE]
                      ELSE [returncode |-> code, stdout |-> out, timeout |-> FALSE]
    /\ \/ UNCHANGED <<last_message, written_message>>
       \/ /\ adapter = "codex"
          /\ \E message \in MessageTexts :
                /\ last_message' = message
                /\ written_message' = message
    /\ xpc' = "finally"
    /\ UNCHANGED <<adapter, last_message_file, agent_result, agent_runs>>
    /\ OnlyExtract

\* The finally clause of run_agent: adapter.cleanup().  The Codex adapter
\* unlinks the file and forgets its name; after a timeout run_agent raises.
AdapterCleanup ==
    /\ xpc = "finally"
    /\ IF adapter = "codex"
       THEN last_message_file' = "none" /\ last_message' = "absent"
       ELSE UNCHANGED <<last_message_file, last_message>>
    /\ IF captured.timeout
       THEN /\ agent_result' = [kind |-> "raised", text |-> "timed out"]
            /\ xpc' = "idle"
       ELSE /\ agent_result' = agent_result
            /\ xpc' = "extract"
    /\ UNCHANGED <<adapter, written_message, captured, agent_runs>>
    /\ OnlyExtract

\* run_agent behind the try statement: adapter.extract_output, the check
\* of the return code and of an empty output, the return.
ExtractOutput ==
    /\ xpc = "extract"
    /\ LET text == extract_output(adapter, last_message_file, last_message,
                                  captured.stdout)
       IN  agent_result' =
              IF captured.returncode # 0 THEN [kind |-> "raised", text |-> "failed"]
              ELSE IF text = "" THEN [kind |-> "raised", text |-> "returned empty output"]
              ELSE [kind |-> "returned", text |-> text]
    /\ xpc' = "idle"
    /\ UNCHANGED <<adapter, last_message_file, last_message, written_message, captured,
                   agent_runs>>
    /\ OnlyExtract

InitExtract ==
    /\ PipelineIdle
    /\ CheckedIdle
    /\ StreamIdle
    /\ ParseIdle
    /\ ContractIdle
    /\ StripIdle
    /\ MarkersIdle
    /\ AtomicIdle
    /\ PathsIdle
    /\ LockIdle
    /\ PoisonIdle
    /\ HistoryIdle
    /\ adapter = "none"
    /\ last_message_file = "none"
    /\ last_message = "absent"
    /\ written_message = "none"
    /\ captured = NoCapture
    /\ xpc = "idle"
    /\ agent_result = [kind |-> "none", text |-> ""]
    /\ agent_runs = 0

NextExtract ==
    \/ BuildCommand
    \/ ProcessRuns
    \/ AdapterCleanup
    \/ ExtractOutput

SpecExtract == InitExtract /\ [][NextExtract]_vars

\* C38: adapter.extract_output runs while the temporary file of the Codex
\* adapter still exists, and whenever the process wrote a non-empty
\* last-message file, the text run_agent returns is the content of that
\* file and not the raw stdout.
C38_ExtractBeforeCleanup ==
    /\ (xpc = "extract" /\ adapter = "codex") =>
          last_message_file # "none" /\ last_message # "absent"
    /\ ( /\ xpc = "idle"
         /\ adapter = "codex"
         /\ agent_result.kind = "returned"
         /\ written_message # "none"
         /\ Strip(written_message) # "" ) =>
            agent_result.text = Strip(written_message)

====
